---- MODULE Spec2Model ----
(***************************************************************************)
(* LakeXpress MCP server: request validation (src/src/validators.py),      *)
(* command construction (src/src/lakexpress.py) and the preview/execute    *)
(* tool handlers (src/src/server.py).                                      *)
(*                                                                         *)
(* A JSON object of the tool arguments is the function from the keys it    *)
(* carries to their values; a variant object is in the arguments when its  *)
(* key is in DOMAIN variants.  A Python None after validation is "the key  *)
(* is not in the object".                                                  *)
(***************************************************************************)
EXTENDS Integers, Sequences, FiniteSets, TLC

\* ------------------------------------------------------------------ state
VARIABLES
  builder_ok,        \* command_builder is not None (the binary passed _validate_binary)
  binary_path,       \* str(CommandBuilder.binary_path)
  FASTBCP_DIR_PATH,  \* the environment's FASTBCP_DIR_PATH ("" when unset)
  args,              \* the preview_command arguments a caller is putting together
  call,              \* the tool call the server has received and not yet handled
  resp,              \* the last tool response
  executed,          \* the invocations of CommandBuilder.execute_command, in order
  previewed,         \* the token vectors preview_command has rendered so far
  _SORTED_VERSIONS,  \* version.py's registry, ascending: <<version, capabilities>> pairs
  _detection_done,   \* VersionDetector._detection_done
  _detected_version, \* VersionDetector._detected_version (NoVersion for None)
  probes,            \* how often detect() has run the binary (subprocess.run)
  probed,            \* what each probe did, and the exception detect() let out of it
  threads,           \* the detect() / capabilities calls in progress, per caller
  detected,          \* what the detect() calls on the detector returned, in order
  resolved,          \* what the capabilities accesses returned, in order
  builds,            \* the build_command calls: request and returned vector, in order
  binary,            \* what is at the binary path now: an executable file or not
  now,               \* the clock, in whole seconds
  logs,              \* the files of the log directory, by the second in their name
  results,           \* what the execute_command calls returned or raised, in order
  displayed          \* the last format_command_display call: the vector and the string

\* The version detector with its registry and the record of calls on it and
\* on the builder that owns it.
detector ==
  <<_SORTED_VERSIONS, _detection_done, _detected_version, probes, probed, threads,
    detected, resolved, builds>>

\* The file system and the clock the builder runs against, and the record of
\* the executions and of the last rendering.
outside == <<binary, now, logs, results, displayed>>

vars ==
  <<builder_ok, binary_path, FASTBCP_DIR_PATH, args, call, resp, executed, previewed,
    detector, outside>>

\* ------------------------------------------------------------------ bounds
\* Keys of the matching variant that a request sets differently from the
\* minimally valid object.
MaxEdits == 2
\* Variant objects a request carries besides the matching one.
MaxOthers == 1
\* Longest incremental_table list a request carries.
MaxList == 2
\* Executor invocations recorded in one run of the server.
MaxExec == 2
\* Versions a registry holds.
MaxRegistry == 2
\* Calls recorded on one detector and its builder.
MaxCalls == 2
\* Capability resolutions recorded against one registry.
MaxResolved == 2
\* Callers that use one detector at the same time.
MaxThreads == 2
\* Seconds the clock advances in one run of the server.
MaxSeconds == 1

\* ------------------------------------------------------------------ enums
Kinds ==
  {"logdb_init", "logdb_drop", "logdb_truncate", "logdb_locks",
   "logdb_release_locks", "config_create", "config_delete", "config_list",
   "sync", "sync_export", "sync_publish", "run", "status", "cleanup"}

PublishMethod == {"external", "internal"}

CompressionType == {"Zstd", "Snappy", "Gzip", "Lz4", "None"}

ErrorAction == {"fail", "continue", "skip"}

LogLevel == {"DEBUG", "INFO", "WARNING", "ERROR"}

CleanupStatus == {"running", "failed"}

EnumTypes == {"LogLevel", "CompressionType", "PublishMethod", "ErrorAction", "CleanupStatus"}

EnumMembers(t) ==
  CASE t = "LogLevel" -> LogLevel
    [] t = "CompressionType" -> CompressionType
    [] t = "PublishMethod" -> PublishMethod
    [] t = "ErrorAction" -> ErrorAction
    [] t = "CleanupStatus" -> CleanupStatus

\* ------------------------------------------------------------------ schemas
\* A field declaration: Field(...) is required, Field(None | False, ...) is not.
Req(n, t) == [name |-> n, type |-> t, req |-> TRUE]
Opt(n, t) == [name |-> n, type |-> t, req |-> FALSE]

GlobalOptions ==
  << Req("auth_file", "str"), Req("log_db_auth_id", "str"),
     Opt("log_level", "LogLevel"), Opt("log_dir", "str"),
     Opt("no_progress", "bool"), Opt("no_banner", "bool") >>

LogdbInitParams == GlobalOptions

LogdbDropParams == GlobalOptions \o << Opt("confirm", "bool") >>

LogdbTruncateParams == GlobalOptions \o << Opt("sync_id", "str"), Opt("confirm", "bool") >>

LogdbLocksParams == GlobalOptions \o << Opt("sync_id", "str") >>

LogdbReleaseLocksParams ==
  GlobalOptions \o
  << Opt("max_age_hours", "int"), Opt("table_id", "str"), Opt("confirm", "bool") >>

ConfigCreateParams ==
  GlobalOptions \o
  << Req("source_db_auth_id", "str"), Opt("source_db_name", "str"),
     Opt("source_schema_name", "str"),
     Opt("include", "str"), Opt("exclude", "str"),
     Opt("min_rows", "int"), Opt("max_rows", "int"),
     Opt("incremental_table", "list"), Opt("incremental_safety_lag", "int"),
     Opt("output_dir", "str"), Opt("target_storage_id", "str"), Opt("sub_path", "str"),
     Opt("fastbcp_dir_path", "str"), Opt("fastbcp_p", "int"), Opt("n_jobs", "int"),
     Opt("compression_type", "CompressionType"), Opt("large_table_threshold", "int"),
     Opt("fastbcp_table_config", "str"),
     Opt("publish_target", "str"), Opt("publish_method", "PublishMethod"),
     Opt("publish_database_name", "str"), Opt("publish_schema_pattern", "str"),
     Opt("publish_table_pattern", "str"),
     Opt("no_views", "bool"), Opt("pk_constraints", "bool"),
     Opt("generate_metadata", "bool"), Opt("manifest_name", "str"),
     Opt("sync_id", "str"), Opt("error_action", "ErrorAction"), Opt("env_name", "str") >>

ConfigDeleteParams == GlobalOptions \o << Req("sync_id", "str"), Opt("confirm", "bool") >>

ConfigListParams == GlobalOptions \o << Opt("env_name", "str") >>

SyncParams ==
  << Opt("sync_id", "str"), Opt("resume", "bool"), Opt("run_id", "str"),
     Opt("auth_file", "str"), Opt("fastbcp_dir_path", "str"),
     Opt("log_level", "LogLevel"), Opt("log_dir", "str"),
     Opt("no_progress", "bool"), Opt("no_banner", "bool") >>

SyncExportParams ==
  << Opt("sync_id", "str"), Opt("auth_file", "str"), Opt("fastbcp_dir_path", "str"),
     Opt("log_level", "LogLevel"), Opt("log_dir", "str"),
     Opt("no_progress", "bool"), Opt("no_banner", "bool") >>

SyncPublishParams ==
  << Opt("sync_id", "str"), Opt("run_id", "str"), Opt("auth_file", "str"),
     Opt("log_level", "LogLevel"), Opt("log_dir", "str"),
     Opt("no_progress", "bool"), Opt("no_banner", "bool") >>

RunParams ==
  << Req("config", "str"), Opt("auth_file", "str"), Opt("log_db_auth_id", "str"),
     Opt("log_level", "LogLevel"), Opt("log_dir", "str"),
     Opt("no_progress", "bool"), Opt("no_banner", "bool") >>

StatusParams ==
  GlobalOptions \o << Opt("sync_id", "str"), Opt("run_id", "str"), Opt("verbose", "bool") >>

CleanupParams ==
  GlobalOptions \o
  << Req("sync_id", "str"), Opt("older_than", "str"),
     Opt("status", "CleanupStatus"), Opt("dry_run", "bool") >>

\* The variant fields of LakeXpressRequest, each with its parameter model.
LakeXpressRequest ==
  [k \in Kinds |->
     CASE k = "logdb_init" -> LogdbInitParams
       [] k = "logdb_drop" -> LogdbDropParams
       [] k = "logdb_truncate" -> LogdbTruncateParams
       [] k = "logdb_locks" -> LogdbLocksParams
       [] k = "logdb_release_locks" -> LogdbReleaseLocksParams
       [] k = "config_create" -> ConfigCreateParams
       [] k = "config_delete" -> ConfigDeleteParams
       [] k = "config_list" -> ConfigListParams
       [] k = "sync" -> SyncParams
       [] k = "sync_export" -> SyncExportParams
       [] k = "sync_publish" -> SyncPublishParams
       [] k = "run" -> RunParams
       [] k = "status" -> StatusParams
       [] k = "cleanup" -> CleanupParams]

Range(s) == {s[i] : i \in DOMAIN s}

FieldNames == [k \in Kinds |-> {d.name : d \in Range(LakeXpressRequest[k])}]

TypeOf ==
  [k \in Kinds |->
     [f \in FieldNames[k] |-> (CHOOSE d \in Range(LakeXpressRequest[k]) : d.name = f).type]]

\* The properties the inputSchema of preview_command lists for the variant
\* object of each command.
InputSchema ==
  [k \in Kinds |->
     CASE k = "logdb_init" ->
            {"auth_file", "log_db_auth_id", "log_level", "log_dir", "no_progress",
             "no_banner"}
       [] k = "logdb_drop" ->
            {"auth_file", "log_db_auth_id", "confirm", "log_level", "log_dir",
             "no_progress", "no_banner"}
       [] k = "logdb_truncate" ->
            {"auth_file", "log_db_auth_id", "sync_id", "confirm", "log_level", "log_dir",
             "no_progress", "no_banner"}
       [] k = "logdb_locks" ->
            {"auth_file", "log_db_auth_id", "sync_id", "log_level", "log_dir",
             "no_progress", "no_banner"}
       [] k = "logdb_release_locks" ->
            {"auth_file", "log_db_auth_id", "max_age_hours", "table_id", "confirm",
             "log_level", "log_dir", "no_progress", "no_banner"}
       [] k = "config_create" ->
            {"auth_file", "log_db_auth_id", "source_db_auth_id", "source_db_name",
             "source_schema_name", "include", "exclude", "min_rows", "max_rows",
             "incremental_table", "incremental_safety_lag", "output_dir",
             "target_storage_id", "sub_path", "fastbcp_dir_path", "fastbcp_p", "n_jobs",
             "compression_type", "large_table_threshold", "fastbcp_table_config",
             "publish_target", "publish_method", "publish_database_name",
             "publish_schema_pattern", "publish_table_pattern", "no_views",
             "pk_constraints", "generate_metadata", "manifest_name", "sync_id",
             "error_action", "env_name", "log_level", "log_dir", "no_progress", "no_banner"}
       [] k = "config_delete" ->
            {"auth_file", "log_db_auth_id", "sync_id", "confirm", "log_level", "log_dir",
             "no_progress", "no_banner"}
       [] k = "config_list" ->
            {"auth_file", "log_db_auth_id", "env_name", "log_level", "log_dir",
             "no_progress", "no_banner"}
       [] k = "sync" ->
            {"sync_id", "resume", "run_id", "auth_file", "fastbcp_dir_path", "log_level",
             "log_dir", "no_progress", "no_banner", "quiet_fbcp"}
       [] k = "sync_export" ->
            {"sync_id", "auth_file", "fastbcp_dir_path", "log_level", "log_dir",
             "no_progress", "no_banner", "quiet_fbcp"}
       [] k = "sync_publish" ->
            {"sync_id", "run_id", "auth_file", "log_level", "log_dir", "no_progress",
             "no_banner"}
       [] k = "run" ->
            {"config", "auth_file", "log_db_auth_id", "log_level", "log_dir",
             "no_progress", "no_banner"}
       [] k = "status" ->
            {"auth_file", "log_db_auth_id", "sync_id", "run_id", "verbose", "log_level",
             "log_dir", "no_progress", "no_banner"}
       [] k = "cleanup" ->
            {"auth_file", "log_db_auth_id", "sync_id", "older_than", "status", "dry_run",
             "log_level", "log_dir", "no_progress", "no_banner"}]

\* The JSON type the inputSchema gives a property: that of the model's field
\* of the same name; a property without such a field is a boolean.
SchemaTypeOf(k, f) == IF f \in FieldNames[k] THEN TypeOf[k][f] ELSE "bool"

RequiredFields == [k \in Kinds |-> {d.name : d \in {e \in Range(LakeXpressRequest[k]) : e.req}}]

\* ------------------------------------------------------------------ values
\* The values a caller supplies, per declared type.  Strings include the empty
\* string and one with a blank; an enumeration field may also carry a string
\* that is no member.
StrValues == {"", "a"}

\* Fields that hold a file-system path also take one with a blank in it.
PathFields == {"auth_file", "log_dir", "output_dir", "config", "fastbcp_dir_path"}

PathValues == {"", "a", "b c"}

IntValues == {0, 7}

TableSpecs == {"t1", "t2"}

ListValues == UNION {[1..n -> TableSpecs] : n \in 0..MaxList}

NotAMember == "bogus"

Values(f, t) ==
  CASE t = "str" -> IF f \in PathFields THEN PathValues ELSE StrValues
    [] t = "int" -> IntValues
    [] t = "bool" -> BOOLEAN
    [] t = "list" -> ListValues
    [] OTHER -> EnumMembers(t) \cup {NotAMember}

\* The empty object {}.
EmptyObject == [f \in {} |-> ""]

Keys(p) == DOMAIN p

WithField(p, f, v) == [g \in DOMAIN p \cup {f} |-> IF g = f THEN v ELSE p[g]]

WithoutField(p, f) == [g \in DOMAIN p \ {f} |-> p[g]]

\* Reads of a validated parameter model, as the builder makes them.
\* `x is not None`
NotNone(p, f) == f \in Keys(p)
\* `if x:` on Optional[str] and on the str-valued enumerations
TruthyStr(p, f) == f \in Keys(p) /\ p[f] # ""
\* `if x:` on bool fields (default False)
TruthyBool(p, f) == f \in Keys(p) /\ p[f]
\* `if x:` on Optional[List[str]]
TruthyList(p, f) == f \in Keys(p) /\ p[f] # << >>

\* ------------------------------------------------------------------ validation
\* One entry of ValidationError.errors(): the location, the error type and the
\* message as the pieces of its format string.
Error(loc, type, msg) == [loc |-> loc, type |-> type, msg |-> msg]

\* Field validation of one parameter model: every field is validated and every
\* failure collected (required-field presence, enumeration membership).  A
\* key that is no field of the model is ignored (pydantic's default for extra
\* keys; no model of validators.py sets another).
FieldErrors(k, p) ==
  {Error(<<f>>, "missing", <<"Field required">>) : f \in RequiredFields[k] \ Keys(p)}
  \cup
  {Error(<<f>>, "enum", <<"Input should be a member of ", TypeOf[k][f]>>) :
     f \in {g \in Keys(p) \cap FieldNames[k] :
              TypeOf[k][g] \in EnumTypes /\ p[g] \notin EnumMembers(TypeOf[k][g])}}

\* validate_output_destination testing `is not None` in place of truthiness.
validate_output_destination_not_none(p) ==
  IF NotNone(p, "output_dir") /\ NotNone(p, "target_storage_id")
  THEN {Error(<< >>, "value_error",
              <<"output_dir and target_storage_id are mutually exclusive. ",
                "Use output_dir for local storage or target_storage_id for cloud storage.">>)}
  ELSE IF ~NotNone(p, "output_dir") /\ ~NotNone(p, "target_storage_id")
  THEN {Error(<< >>, "value_error",
              <<"At least one of output_dir or target_storage_id must be provided.">>)}
  ELSE {}

\* ConfigCreateParams.validate_output_destination: the ValueError it raises, if any.
validate_output_destination(p) ==
  IF TruthyStr(p, "output_dir") /\ TruthyStr(p, "target_storage_id")
  THEN {Error(<< >>, "value_error",
              <<"output_dir and target_storage_id are mutually exclusive. ",
                "Use output_dir for local storage or target_storage_id for cloud storage.">>)}
  ELSE IF ~TruthyStr(p, "output_dir") /\ ~TruthyStr(p, "target_storage_id")
  THEN {Error(<< >>, "value_error",
              <<"At least one of output_dir or target_storage_id must be provided.">>)}
  ELSE {}

\* ConfigCreateParams.validate_publish_method_requires_target.
validate_publish_method_requires_target(p) ==
  IF TruthyStr(p, "publish_method") /\ ~TruthyStr(p, "publish_target")
  THEN {Error(<< >>, "value_error", <<"publish_method requires publish_target to be set.">>)}
  ELSE {}

\* The mode="after" validators of a parameter model, in definition order: the
\* first one that raises ends the validation with its single error.
AfterValidators(k, p) ==
  IF k = "config_create"
  THEN IF validate_output_destination(p) # {}
       THEN validate_output_destination(p)
       ELSE validate_publish_method_requires_target(p)
  ELSE {}

\* Validation of one parameter model: the after-validators run only when every
\* field validated.
ValidateParams(k, p) ==
  IF FieldErrors(k, p) # {} THEN FieldErrors(k, p) ELSE AfterValidators(k, p)

Prefixed(k, errs) == {Error(<<k>> \o e.loc, e.type, e.msg) : e \in errs}

\* The tool arguments: the command and, per variant key, its object.
NoCommand == ""

CommandErrors(a) ==
  IF a.command = NoCommand THEN {Error(<<"command">>, "missing", <<"Field required">>)}
  ELSE IF a.command \notin Kinds
  THEN {Error(<<"command">>, "enum", <<"Input should be a member of ", "CommandType">>)}
  ELSE {}

command_to_field ==
  [k \in Kinds |->
     CASE k = "logdb_init" -> "logdb_init"
       [] k = "logdb_drop" -> "logdb_drop"
       [] k = "logdb_truncate" -> "logdb_truncate"
       [] k = "logdb_locks" -> "logdb_locks"
       [] k = "logdb_release_locks" -> "logdb_release_locks"
       [] k = "config_create" -> "config_create"
       [] k = "config_delete" -> "config_delete"
       [] k = "config_list" -> "config_list"
       [] k = "sync" -> "sync"
       [] k = "sync_export" -> "sync_export"
       [] k = "sync_publish" -> "sync_publish"
       [] k = "run" -> "run"
       [] k = "status" -> "status"
       [] k = "cleanup" -> "cleanup"]

\* validate_command_params satisfied by any variant at all.
validate_command_params_any_variant(a) ==
  IF DOMAIN a.variants = {}
  THEN {Error(<< >>, "value_error",
              <<"Command '", a.command, "' requires '", command_to_field[a.command],
                "' parameters to be provided.">>)}
  ELSE {}

\* validate_command_params that also refuses a second variant.
validate_command_params_exactly_one(a) ==
  IF command_to_field[a.command] \notin DOMAIN a.variants
  THEN {Error(<< >>, "value_error",
              <<"Command '", a.command, "' requires '", command_to_field[a.command],
                "' parameters to be provided.">>)}
  ELSE IF DOMAIN a.variants # {command_to_field[a.command]}
  THEN {Error(<< >>, "value_error", <<"exactly one parameter object should be provided">>)}
  ELSE {}

\* LakeXpressRequest.validate_command_params.
validate_command_params(a) ==
  LET expected_field == command_to_field[a.command]
  IN IF expected_field \notin DOMAIN a.variants
     THEN {Error(<< >>, "value_error",
                 <<"Command '", a.command, "' requires '", expected_field,
                   "' parameters to be provided.">>)}
     ELSE {}

\* LakeXpressRequest(**arguments): the errors of the ValidationError it raises,
\* {} when it constructs the request.
RequestFieldErrors(a) ==
  CommandErrors(a) \cup
  UNION {Prefixed(k, ValidateParams(k, a.variants[k])) : k \in DOMAIN a.variants}

ValidateRequest(a) ==
  IF RequestFieldErrors(a) # {} THEN RequestFieldErrors(a) ELSE validate_command_params(a)

\* ------------------------------------------------------------------ builder
\* cmd.extend([flag, value]) / cmd.append(flag) under the guard the code puts
\* on the field; str() of an int is its base-10 numeral.
IfStr(p, f, flag) == IF TruthyStr(p, f) THEN <<flag, p[f]>> ELSE << >>

\* An int option emitted under `if x:`, which drops 0.
IfIntTruthy(p, f, flag) ==
  IF NotNone(p, f) /\ p[f] # 0 THEN <<flag, ToString(p[f])>> ELSE << >>

IfInt(p, f, flag) == IF NotNone(p, f) THEN <<flag, ToString(p[f])>> ELSE << >>

IfBool(p, f, flag) == IF TruthyBool(p, f) THEN <<flag>> ELSE << >>

\* The flag once, followed by every element of the list.
ForEachOnce(flag, list) == IF list = << >> THEN << >> ELSE <<flag>> \o list

\* `for inc in list: cmd.extend([flag, inc])`.
RECURSIVE ForEach(_, _)
ForEach(flag, list) ==
  IF list = << >> THEN << >> ELSE <<flag, Head(list)>> \o ForEach(flag, Tail(list))

\* The global options with the credentials emitted only when given.
_build_global_options_if_given(p) ==
  IfStr(p, "auth_file", "-a") \o
  IfStr(p, "log_db_auth_id", "--log_db_auth_id") \o
  IfStr(p, "log_level", "--log_level") \o
  IfStr(p, "log_dir", "--log_dir") \o
  IfBool(p, "no_progress", "--no_progress") \o
  IfBool(p, "no_banner", "--no_banner")

_build_global_options(p) ==
  <<"-a", p["auth_file"]>> \o
  <<"--log_db_auth_id", p["log_db_auth_id"]>> \o
  IfStr(p, "log_level", "--log_level") \o
  IfStr(p, "log_dir", "--log_dir") \o
  IfBool(p, "no_progress", "--no_progress") \o
  IfBool(p, "no_banner", "--no_banner")

_build_common_options(p) ==
  IfStr(p, "log_level", "--log_level") \o
  IfStr(p, "log_dir", "--log_dir") \o
  IfBool(p, "no_progress", "--no_progress") \o
  IfBool(p, "no_banner", "--no_banner")

_build_logdb_init(bp, p) == <<bp, "logdb", "init">> \o _build_global_options(p)

_build_logdb_drop(bp, p) ==
  <<bp, "logdb", "drop">> \o _build_global_options(p) \o IfBool(p, "confirm", "--confirm")

_build_logdb_truncate(bp, p) ==
  <<bp, "logdb", "truncate">> \o _build_global_options(p) \o
  IfStr(p, "sync_id", "--sync_id") \o IfBool(p, "confirm", "--confirm")

_build_logdb_locks(bp, p) ==
  <<bp, "logdb", "locks">> \o _build_global_options(p) \o IfStr(p, "sync_id", "--sync_id")

_build_logdb_release_locks(bp, p) ==
  <<bp, "logdb", "release-locks">> \o _build_global_options(p) \o
  IfInt(p, "max_age_hours", "--max_age_hours") \o
  IfStr(p, "table_id", "--table_id") \o
  IfBool(p, "confirm", "--confirm")

_build_config_create(bp, p) ==
  <<bp, "config", "create">> \o _build_global_options(p) \o
  \* Source
  <<"--source_db_auth_id", p["source_db_auth_id"]>> \o
  IfStr(p, "source_db_name", "--source_db_name") \o
  IfStr(p, "source_schema_name", "--source_schema_name") \o
  \* Filtering
  IfStr(p, "include", "-i") \o
  IfStr(p, "exclude", "-e") \o
  IfInt(p, "min_rows", "--min_rows") \o
  IfInt(p, "max_rows", "--max_rows") \o
  \* Incremental
  (IF TruthyList(p, "incremental_table")
   THEN ForEach("--incremental_table", p["incremental_table"]) ELSE << >>) \o
  IfInt(p, "incremental_safety_lag", "--incremental_safety_lag") \o
  \* Storage
  IfStr(p, "output_dir", "--output_dir") \o
  IfStr(p, "target_storage_id", "--target_storage_id") \o
  IfStr(p, "sub_path", "--sub_path") \o
  \* FastBCP
  IfStr(p, "fastbcp_dir_path", "--fastbcp_dir_path") \o
  IfInt(p, "fastbcp_p", "-p") \o
  IfInt(p, "n_jobs", "--n_jobs") \o
  IfStr(p, "compression_type", "--compression_type") \o
  IfInt(p, "large_table_threshold", "--large_table_threshold") \o
  IfStr(p, "fastbcp_table_config", "--fastbcp_table_config") \o
  \* Publishing
  IfStr(p, "publish_target", "--publish_target") \o
  IfStr(p, "publish_method", "--publish_method") \o
  IfStr(p, "publish_database_name", "--publish_database_name") \o
  IfStr(p, "publish_schema_pattern", "--publish_schema_pattern") \o
  IfStr(p, "publish_table_pattern", "--publish_table_pattern") \o
  \* Features
  IfBool(p, "no_views", "--no_views") \o
  IfBool(p, "pk_constraints", "--pk_constraints") \o
  IfBool(p, "generate_metadata", "--generate_metadata") \o
  IfStr(p, "manifest_name", "--manifest_name") \o
  \* Other
  IfStr(p, "sync_id", "--sync_id") \o
  IfStr(p, "error_action", "--error_action") \o
  IfStr(p, "env_name", "--env_name")

_build_config_delete(bp, p) ==
  <<bp, "config", "delete">> \o _build_global_options(p) \o
  <<"--sync_id", p["sync_id"]>> \o IfBool(p, "confirm", "--confirm")

_build_config_list(bp, p) ==
  <<bp, "config", "list">> \o _build_global_options(p) \o IfStr(p, "env_name", "--env_name")

_build_sync(bp, p) ==
  <<bp, "sync">> \o
  IfStr(p, "sync_id", "--sync_id") \o
  IfBool(p, "resume", "--resume") \o
  IfStr(p, "run_id", "--run_id") \o
  IfStr(p, "auth_file", "-a") \o
  IfStr(p, "fastbcp_dir_path", "--fastbcp_dir_path") \o
  _build_common_options(p)

\* sync[export] spelled as two tokens.
_build_sync_export_two_tokens(bp, p) ==
  <<bp, "sync", "export">> \o
  IfStr(p, "sync_id", "--sync_id") \o
  IfStr(p, "auth_file", "-a") \o
  IfStr(p, "fastbcp_dir_path", "--fastbcp_dir_path") \o
  _build_common_options(p)

_build_sync_export(bp, p) ==
  <<bp, "sync[export]">> \o
  IfStr(p, "sync_id", "--sync_id") \o
  IfStr(p, "auth_file", "-a") \o
  IfStr(p, "fastbcp_dir_path", "--fastbcp_dir_path") \o
  _build_common_options(p)

_build_sync_publish(bp, p) ==
  <<bp, "sync[publish]">> \o
  IfStr(p, "sync_id", "--sync_id") \o
  IfStr(p, "run_id", "--run_id") \o
  IfStr(p, "auth_file", "-a") \o
  _build_common_options(p)

_build_run(bp, p) ==
  <<bp, "run">> \o
  <<"-c", p["config"]>> \o
  IfStr(p, "auth_file", "-a") \o
  IfStr(p, "log_db_auth_id", "--log_db_auth_id") \o
  _build_common_options(p)

_build_status(bp, p) ==
  <<bp, "status">> \o _build_global_options(p) \o
  IfStr(p, "sync_id", "--sync_id") \o
  IfStr(p, "run_id", "--run_id") \o
  IfBool(p, "verbose", "--verbose")

\* cleanup with --status emitted ahead of --older-than.
_build_cleanup_status_first(bp, p) ==
  <<bp, "cleanup">> \o _build_global_options(p) \o
  <<"--sync_id", p["sync_id"]>> \o
  IfStr(p, "status", "--status") \o
  IfStr(p, "older_than", "--older-than") \o
  IfBool(p, "dry_run", "--dry-run")

_build_cleanup(bp, p) ==
  <<bp, "cleanup">> \o _build_global_options(p) \o
  <<"--sync_id", p["sync_id"]>> \o
  IfStr(p, "older_than", "--older-than") \o
  IfStr(p, "status", "--status") \o
  IfBool(p, "dry_run", "--dry-run")

\* What a call returns or raises.
Returns(v) == [raised |-> "", value |-> v]
Raises(exc) == [raised |-> exc, value |-> << >>]

BuildVariant(bp, k, p) ==
  CASE k = "logdb_init" -> _build_logdb_init(bp, p)
    [] k = "logdb_drop" -> _build_logdb_drop(bp, p)
    [] k = "logdb_truncate" -> _build_logdb_truncate(bp, p)
    [] k = "logdb_locks" -> _build_logdb_locks(bp, p)
    [] k = "logdb_release_locks" -> _build_logdb_release_locks(bp, p)
    [] k = "config_create" -> _build_config_create(bp, p)
    [] k = "config_delete" -> _build_config_delete(bp, p)
    [] k = "config_list" -> _build_config_list(bp, p)
    [] k = "sync" -> _build_sync(bp, p)
    [] k = "sync_export" -> _build_sync_export(bp, p)
    [] k = "sync_publish" -> _build_sync_publish(bp, p)
    [] k = "run" -> _build_run(bp, p)
    [] k = "status" -> _build_status(bp, p)
    [] k = "cleanup" -> _build_cleanup(bp, p)

\* build_command filling a list the builder keeps from one call to the next:
\* the vector starts with the tokens of the call before.
build_command_shared_list(bp, request) ==
  LET cmd == request.command
      kept == IF builds = << >> THEN << >> ELSE builds[Len(builds)].result.value
  IN IF cmd \notin Kinds THEN Raises("LakeXpressError")
     ELSE IF cmd \notin DOMAIN request.variants THEN Raises("AssertionError")
     ELSE Returns(kept \o BuildVariant(bp, cmd, request.variants[cmd]))

\* CommandBuilder.build_command: dispatch on request.command, each branch
\* asserting that its own variant is there.
build_command(bp, request) ==
  LET cmd == request.command
  IN IF cmd \notin Kinds THEN Raises("LakeXpressError")
     ELSE IF cmd \notin DOMAIN request.variants THEN Raises("AssertionError")
     ELSE Returns(BuildVariant(bp, cmd, request.variants[cmd]))

\* ------------------------------------------------------------------ strings
\* A string is read character by character only where the code does so
\* (" ".join, shlex.split).  There it is a sequence of symbols: a blank, a
\* quote, a backslash, or a run of other characters kept as one symbol.
Symbols(t) ==
  CASE t = "" -> << >>
    [] t = "b c" -> <<"b", " ", "c">>
    [] t = "/my tools/LakeXpress" -> <<"/my", " ", "tools/LakeXpress">>
    [] t = "rm -rf /" -> <<"rm", " ", "-rf", " ", "/">>
    [] t = "say \"hi" -> <<"say", " ", "\"", "hi">>
    [] t = "b\tc" -> <<"b", "\t", "c">>
    [] t = "-x y" -> <<"-x", " ", "y">>
    [] OTHER -> <<t>>

\* " ".join(command)
RECURSIVE Join(_)
Join(command) ==
  IF command = << >> THEN << >>
  ELSE IF Len(command) = 1 THEN Symbols(command[1])
  ELSE Symbols(command[1]) \o <<" ">> \o Join(Tail(command))

\* shlex.split(s): POSIX rules, split on whitespace only; a token is the
\* sequence of symbols it keeps.  st is the lexer's state (" " between
\* tokens, "a" inside a word, a quote character inside quotes), tok the token
\* so far, quoted whether the token has seen a quote; "\\" and "dq\\" are the
\* states after a backslash outside quotes and inside double quotes.
RECURSIVE Lex(_, _, _, _, _)
Lex(s, st, tok, quoted, out) ==
  LET emit == IF tok # << >> \/ quoted THEN Append(out, tok) ELSE out
  IN IF s = << >>
     THEN IF st \in {"\"", "'"} THEN Raises("ValueError")
          ELSE IF st \in {"\\", "dq\\"} THEN Raises("ValueError")
          ELSE Returns(emit)
     ELSE LET c == Head(s)
              r == Tail(s)
          IN CASE st = "\\" -> Lex(r, "a", Append(tok, c), quoted, out)
               [] st = "'" ->
                    IF c = "'" THEN Lex(r, "a", tok, quoted, out)
                    ELSE Lex(r, st, Append(tok, c), quoted, out)
               [] st = "\"" ->
                    IF c = "\"" THEN Lex(r, "a", tok, quoted, out)
                    ELSE IF c = "\\" THEN Lex(r, "dq\\", tok, quoted, out)
                    ELSE Lex(r, st, Append(tok, c), quoted, out)
               [] st = "dq\\" ->
                    IF c \in {"\\", "\""} THEN Lex(r, "\"", Append(tok, c), quoted, out)
                    ELSE Lex(r, "\"", tok \o <<"\\", c>>, quoted, out)
               [] OTHER ->
                    IF c = " " THEN Lex(r, " ", << >>, FALSE, emit)
                    ELSE IF c = "\\" THEN Lex(r, "\\", tok, quoted, out)
                    ELSE IF c \in {"\"", "'"} THEN Lex(r, c, tok, TRUE, out)
                    ELSE Lex(r, "a", Append(tok, c), quoted, out)

shlex_split(s) == Lex(s, " ", << >>, FALSE, << >>)

\* ------------------------------------------------------------------ display
\* Longest token vector rendered.
MaxTokens == 3

\* The tokens of the vectors rendered: binary paths, a subcommand, a flag
\* that takes a value and one that takes none, values without and with
\* whitespace, and one that starts with a dash.
DisplayTokens ==
  {"LakeXpress", "/my tools/LakeXpress", "sync", "--sync_id", "--quiet",
   "a", "b c", "b\tc", "-x y"}

DisplayVectors == UNION {[1..n -> DisplayTokens] : n \in 1..MaxTokens}

\* The symbols that start with "-".
DashSymbols == {"--sync_id", "--quiet", "-x"}

\* token.startswith("-")
startswith_dash(token) == Symbols(token) # << >> /\ Head(Symbols(token)) \in DashSymbols

\* " " in value
has_space(value) == \E k \in DOMAIN Symbols(value) : Symbols(value)[k] = " "

\* " \\\n  ", which joins the parts.
ContinuationMarker == <<" ", "\\", "\n", " ", " ">>

\* sep.join(parts), the parts being symbol sequences.
RECURSIVE JoinWith(_, _)
JoinWith(sep, parts) ==
  IF parts = << >> THEN << >>
  ELSE IF Len(parts) = 1 THEN parts[1]
  ELSE parts[1] \o sep \o JoinWith(sep, Tail(parts))

\* The while loop that pairs every "-" token with the token after it, a
\* flag or not.
RECURSIVE formatted_parts_any_next(_, _)
formatted_parts_any_next(command, i) ==
  IF i > Len(command) THEN << >>
  ELSE IF i < Len(command) /\ startswith_dash(command[i])
  THEN <<Symbols(command[i]) \o <<" ">> \o Symbols(command[i + 1])>>
         \o formatted_parts_any_next(command, i + 2)
  ELSE <<Symbols(command[i])>> \o formatted_parts_any_next(command, i + 1)

\* The while loop of format_command_display from index i (1-based here): the
\* parts appended to formatted_parts.
RECURSIVE formatted_parts(_, _)
formatted_parts(command, i) ==
  IF i > Len(command) THEN << >>
  ELSE IF i < Len(command) /\ startswith_dash(command[i])
  THEN LET param == command[i]
           value == command[i + 1]
       IN IF ~startswith_dash(value)
          THEN IF has_space(value)
               THEN <<Symbols(param) \o <<" ", "\"">> \o Symbols(value) \o <<"\"">>>>
                      \o formatted_parts(command, i + 2)
               ELSE <<Symbols(param) \o <<" ">> \o Symbols(value)>>
                      \o formatted_parts(command, i + 2)
          ELSE <<Symbols(command[i])>> \o formatted_parts(command, i + 1)
  ELSE <<Symbols(command[i])>> \o formatted_parts(command, i + 1)

\* CommandBuilder.format_command_display for a non-empty vector.
format_command_display(command) ==
  JoinWith(ContinuationMarker, <<Symbols(command[1])>> \o formatted_parts(command, 2))

\* ------------------------------------------------------------------ versions
\* Text the version code reads is a sequence of lexemes: a maximal run of
\* digits (a numeral), a dot, a blank or line break, or a word.
Numerals == {"0", "1", "2", "3", "8", "08", "10"}

Whitespace == {" ", "\n"}

\* int() of a numeral.
int(n) ==
  CASE n = "08" -> 8
    [] n = "10" -> 10
    [] OTHER -> CHOOSE k \in 0..9 : ToString(k) = n

\* None, for an Optional[LakeXpressVersion].
NoVersion == << >>

\* LakeXpressVersion(major, minor, patch); _tuple is the triple itself.
LakeXpressVersion(major, minor, patch) == <<major, minor, patch>>

_tuple(v) == <<v[1], v[2], v[3]>>

\* Python's comparison of two tuples of integers: the first position where
\* they differ decides, then the length.
RECURSIVE TupleLess(_, _)
TupleLess(s, t) ==
  IF t = << >> THEN FALSE
  ELSE IF s = << >> THEN TRUE
  ELSE IF Head(s) # Head(t) THEN Head(s) < Head(t)
  ELSE TupleLess(Tail(s), Tail(t))

__eq__(self, other) == _tuple(self) = _tuple(other)

\* __lt__ comparing the patch component only.
__lt__patch_only(self, other) == self[3] < other[3]

__lt__(self, other) == TupleLess(_tuple(self), _tuple(other))

\* __le__ as the strict comparison.
__le__strict(self, other) == __lt__(self, other)

\* functools.total_ordering: __le__ is `self < other or self == other`.
__le__(self, other) == __lt__(self, other) \/ __eq__(self, other)

\* re.search(r"(\d+)\.(\d+)\.(\d+)", text): the position of the leftmost
\* match, 0 when there is none.
TripleAt(text, i) ==
  /\ i + 4 <= Len(text)
  /\ text[i] \in Numerals /\ text[i + 1] = "." /\ text[i + 2] \in Numerals
  /\ text[i + 3] = "." /\ text[i + 4] \in Numerals

TripleOf(text, i) == LakeXpressVersion(int(text[i]), int(text[i + 2]), int(text[i + 4]))

\* LakeXpressVersion.parse: the version, or ValueError.
parse(version_string) ==
  LET hits == {i \in DOMAIN version_string : TripleAt(version_string, i)}
  IN IF hits = {} THEN Raises("ValueError")
     ELSE Returns(TripleOf(version_string, CHOOSE i \in hits : \A j \in hits : i <= j))

\* LakeXpressVersion.__str__
__str__(v) == <<ToString(v[1]), ".", ToString(v[2]), ".", ToString(v[3])>>

\* A VersionCapabilities value.
VersionCapabilities(sd, ld, sb, pt, ct, cmds, banner, vflag, incr, cleanup) ==
  [source_databases |-> sd, log_databases |-> ld, storage_backends |-> sb,
   publish_targets |-> pt, compression_types |-> ct, commands |-> cmds,
   supports_no_banner |-> banner, supports_version_flag |-> vflag,
   supports_incremental |-> incr, supports_cleanup |-> cleanup]

\* VERSION_REGISTRY as its items: the key's text and the capabilities.
VERSION_REGISTRY ==
  { << <<"0", ".", "2", ".", "8">>,
       VersionCapabilities(
         {"sqlserver", "postgresql", "oracle", "mysql", "mariadb"},
         {"sqlserver", "postgresql", "mysql", "mariadb", "sqlite", "duckdb"},
         {"local", "s3", "s3compatible", "gcs", "azure_adls", "onelake"},
         {"snowflake", "databricks", "fabric", "bigquery", "motherduck", "glue", "ducklake"},
         {"Zstd", "Snappy", "Gzip", "Lz4", "None"},
         Kinds, TRUE, TRUE, TRUE, TRUE) >> }

\* The versions registries are made of besides the shipped one, and the
\* capabilities such a registry gives a version: later versions add to them.
RegistryVersions ==
  {LakeXpressVersion(0, 1, 0), LakeXpressVersion(0, 2, 0), LakeXpressVersion(0, 2, 8),
   LakeXpressVersion(0, 3, 0), LakeXpressVersion(1, 0, 0)}

CapabilitiesAt(v) ==
  VersionCapabilities(
    {"sqlserver", "postgresql"}, {"sqlite"}, {"local", "s3"},
    IF v[1] >= 1 THEN {"snowflake"} ELSE {},
    {"Zstd"},
    IF v[1] >= 1 \/ v[2] >= 3 THEN Kinds ELSE Kinds \ {"cleanup"},
    v[1] >= 1 \/ v[2] >= 2,
    TRUE,
    v[1] >= 1 \/ v[2] >= 3 \/ (v[2] = 2 /\ v[3] >= 8),
    v[1] >= 1 \/ v[2] >= 3)

\* sorted(items, key=lambda x: x[0]) of <<version, capabilities>> items
\* with different versions.
RECURSIVE sorted(_)
sorted(items) ==
  IF items = {} THEN << >>
  ELSE LET first == CHOOSE x \in items : \A y \in items \ {x} : ~__lt__(y[1], x[1])
       IN <<first>> \o sorted(items \ {first})

\* _SORTED_VERSIONS of a registry given as its items.
SortedVersions(registry) == sorted({<<parse(item[1]).value, item[2]>> : item \in registry})

\* The registries the resolver runs against: the shipped one, none, and
\* registries of up to MaxRegistry versions.
Registries ==
  {VERSION_REGISTRY} \cup
  {{<<__str__(v), CapabilitiesAt(v)>> : v \in vs} :
     vs \in {ws \in SUBSET RegistryVersions : Cardinality(ws) <= MaxRegistry}}

\* capabilities, lines 233-242: the capabilities of an empty registry.
EmptyCapabilities == VersionCapabilities({}, {}, {}, {}, {}, {}, FALSE, FALSE, FALSE, FALSE)

\* capabilities, lines 249-254: the loop from entry i on; `best` is << >> for
\* None and <<caps>> otherwise.
RECURSIVE Scan(_, _, _, _)
Scan(registry, version, i, best) ==
  IF i > Len(registry) THEN best
  ELSE IF __le__(registry[i][1], version)
  THEN Scan(registry, version, i + 1, <<registry[i][2]>>)
  ELSE best

\* capabilities without the fall-back for a version older than all entries.
ResolveNoFallback(registry, version) ==
  IF registry = << >> THEN EmptyCapabilities
  ELSE IF version = NoVersion THEN registry[Len(registry)][2]
  ELSE LET best == Scan(registry, version, 1, << >>)
       IN IF best # << >> THEN best[1] ELSE EmptyCapabilities

\* capabilities that stops at the first entry <= the version.
ResolveFirst(registry, version) ==
  IF registry = << >> THEN EmptyCapabilities
  ELSE IF version = NoVersion \/ ~__le__(registry[1][1], version)
  THEN registry[Len(registry)][2]
  ELSE registry[1][2]

\* capabilities that answers an empty registry with the shipped capabilities.
ResolveShippedWhenEmpty(registry, version) ==
  IF registry = << >> THEN (CHOOSE item \in VERSION_REGISTRY : TRUE)[2]
  ELSE IF version = NoVersion THEN registry[Len(registry)][2]
  ELSE LET best == Scan(registry, version, 1, << >>)
       IN IF best # << >> THEN best[1] ELSE registry[Len(registry)][2]

\* VersionDetector.capabilities after its detect(): lines 233-257.
Resolve(registry, version) ==
  IF registry = << >> THEN EmptyCapabilities
  ELSE IF version = NoVersion THEN registry[Len(registry)][2]
  ELSE LET best == Scan(registry, version, 1, << >>)
       IN IF best # << >> THEN best[1] ELSE registry[Len(registry)][2]

\* What the probe (subprocess.run of the binary with --version) can do: print
\* text, stdout and stderr together, or raise.
ProbeOutputs ==
  {<<"LakeXpress", " ">> \o __str__(v) \o <<"\n">> : v \in RegistryVersions} \cup
  { <<"LakeXpress", " ", "0", ".", "2", ".", "08">>,
    <<"0", ".", "2", ".", "8">>,
    <<"LakeXpress", " ", "version", " ", "0", ".", "3", ".", "0">>,
    <<"LakeXpress", " ", "0", ".", "2">>,
    <<"Unknown", " ", "output">>,
    << >> }

ProbeResults ==
  {[raised |-> "", output |-> o] : o \in ProbeOutputs} \cup
  {[raised |-> e, output |-> << >>] :
     e \in {"TimeoutExpired", "FileNotFoundError", "PermissionError"}}

\* detect, line 203: re.search(r"LakeXpress\s+(\d+)\.(\d+)\.(\d+)", output),
\* the position of the first numeral of the leftmost match, 0 for no match.
RECURSIVE SkipWhitespace(_, _)
SkipWhitespace(text, i) ==
  IF i <= Len(text) /\ text[i] \in Whitespace THEN SkipWhitespace(text, i + 1) ELSE i

NameThenTripleAt(text, i) ==
  /\ text[i] = "LakeXpress"
  /\ SkipWhitespace(text, i + 1) > i + 1
  /\ TripleAt(text, SkipWhitespace(text, i + 1))

\* detect, lines 202-209: the version the probe's result holds for the
\* pattern, NoVersion when it raised or its output has no match.
Matched(result) ==
  IF result.raised # "" THEN NoVersion
  ELSE LET hits == {i \in DOMAIN result.output : NameThenTripleAt(result.output, i)}
       IN IF hits = {} THEN NoVersion
          ELSE TripleOf(result.output,
                        SkipWhitespace(result.output,
                                       (CHOOSE i \in hits : \A j \in hits : i <= j) + 1))

\* ------------------------------------------------------------------ deployment
BinaryPaths == {"LakeXpress", "/my tools/LakeXpress"}

FastbcpDirs == {"", "/opt/fastbcp"}

\* The deployments requests are put together against.
Deployments == {<<"LakeXpress", "">>, <<"/my tools/LakeXpress", "/opt/fastbcp">>}

NoArgs == [command |-> NoCommand, variants |-> EmptyObject]

NoCall == [name |-> "", arguments |-> << >>]

NoResp == [tool |-> "", kind |-> "", errors |-> {}, command |-> << >>]

Resp(tool, kind, errors, command) ==
  [tool |-> tool, kind |-> kind, errors |-> errors, command |-> command]

\* No call is in progress on the detector.
NoThreads == << >>

\* What may be at the binary path.
BinaryStates == {"executable", "missing", "directory", "not_executable"}

\* CommandBuilder._validate_binary: exists(), is_file(), os.access(X_OK).
_validate_binary(b) ==
  IF b = "missing" THEN Raises("LakeXpressError")
  ELSE IF b = "directory" THEN Raises("LakeXpressError")
  ELSE IF b = "not_executable" THEN Raises("LakeXpressError")
  ELSE Returns(<< >>)

\* The log directory without a file.
NoFiles == << >>

\* No vector is being rendered.
NoDisplay == [command |-> << >>, text |-> << >>]

\* No execution has run: the clock starts, the log directory is empty.
NothingRun ==
  /\ now = 0
  /\ logs = NoFiles
  /\ results = << >>
  /\ displayed = NoDisplay

\* The module-level initialisation of server.py has given command_builder
\* its value against what was at the binary path, and nothing has run.
OutsideOfServer ==
  /\ binary \in {b \in BinaryStates : (_validate_binary(b).raised = "") = builder_ok}
  /\ NothingRun

\* What the probe of the shipped binary prints.
ShippedProbe ==
  [raised |-> "", output |-> <<"LakeXpress", " ", "0", ".", "2", ".", "8", "\n">>]

\* The detector of the running server: CommandBuilder.__init__ has run
\* detect() when there is a builder, and no call is recorded since.
DetectorOfServer ==
  /\ _SORTED_VERSIONS = SortedVersions(VERSION_REGISTRY)
  /\ _detection_done = builder_ok
  /\ _detected_version = IF builder_ok THEN LakeXpressVersion(0, 2, 8) ELSE NoVersion
  /\ probes = IF builder_ok THEN 1 ELSE 0
  /\ probed = IF builder_ok THEN <<[result |-> ShippedProbe, raised |-> ""]>> ELSE << >>
  /\ threads = NoThreads
  /\ detected = << >>
  /\ resolved = << >>
  /\ builds = << >>

\* ------------------------------------------------------------------ handlers
\* handle_preview_command, lines 929-934: FASTBCP_DIR_PATH fills an unset or
\* empty fastbcp_dir_path of the config_create, sync and sync_export objects.
AutoFill(a, env) ==
  IF env = "" THEN a
  ELSE [a EXCEPT !.variants =
          [k \in DOMAIN a.variants |->
             IF k \in {"config_create", "sync", "sync_export"}
                /\ ~TruthyStr(a.variants[k], "fastbcp_dir_path")
             THEN WithField(a.variants[k], "fastbcp_dir_path", env)
             ELSE a.variants[k]]]

\* handle_preview_command as call_tool runs it: the response for `arguments`.
handle_preview_command(ok, bp, env, arguments) ==
  IF ~ok THEN Resp("preview_command", "no_binary", {}, << >>)
  ELSE LET request == AutoFill(arguments, env)
           errors == ValidateRequest(request)
           built == build_command(bp, request)
       IN IF errors # {} THEN Resp("preview_command", "validation_error", errors, << >>)
          ELSE IF built.raised # "" THEN Resp("preview_command", "error", {}, << >>)
          ELSE Resp("preview_command", "preview", {}, built.value)

\* arguments.get("confirmation", False), as `not` reads it.
Confirmations == {"true", "false", "absent"}

Confirmed(arguments) == arguments.confirmation = "true"

\* What subprocess.run does with a command: it exits with a code, exceeds
\* the timeout, cannot be launched, or (text=True) fails to decode what the
\* process printed.
Outcomes == {"exit_0", "exit_1", "timeout", "launch_failed", "undecodable"}

Completed == {"exit_0", "exit_1"}

returncode(outcome) == IF outcome = "exit_0" THEN 0 ELSE 1

stdout(outcome) == IF outcome = "exit_0" THEN "done" ELSE ""

stderr(outcome) == IF outcome = "exit_0" THEN "" ELSE "no such sync_id"

\* The exception subprocess.run raises for an outcome.
ExceptionOf(outcome) ==
  CASE outcome = "timeout" -> "TimeoutExpired"
    [] outcome = "launch_failed" -> "FileNotFoundError"
    [] outcome = "undecodable" -> "UnicodeDecodeError"

LAKEXPRESS_TIMEOUT == 3600

\* A call that raises exc with a message.
RaisesWith(exc, message) == [raised |-> exc, value |-> message]

\* execute_command running the process with check=True: a non-zero exit
\* code raises.
execute_command_check(command, outcome) ==
  IF outcome = "exit_0"
  THEN Returns(<<returncode(outcome), stdout(outcome), stderr(outcome)>>)
  ELSE IF outcome = "timeout"
  THEN RaisesWith("LakeXpressError",
                  <<"Execution timed out after ", ToString(LAKEXPRESS_TIMEOUT), " seconds">>)
  ELSE IF outcome = "exit_1"
  THEN RaisesWith("LakeXpressError", <<"Execution failed: ", "CalledProcessError">>)
  ELSE RaisesWith("LakeXpressError", <<"Execution failed: ", ExceptionOf(outcome)>>)

\* CommandBuilder.execute_command: what it returns or raises.
execute_command(command, outcome) ==
  IF outcome \in Completed
  THEN Returns(<<returncode(outcome), stdout(outcome), stderr(outcome)>>)
  ELSE IF outcome = "timeout"
  THEN RaisesWith("LakeXpressError",
                  <<"Execution timed out after ", ToString(LAKEXPRESS_TIMEOUT), " seconds">>)
  ELSE RaisesWith("LakeXpressError", <<"Execution failed: ", ExceptionOf(outcome)>>)

\* The name of a log file: lakexpress_%Y%m%d_%H%M%S.log, the clock to the
\* second.
log_file(timestamp) == timestamp

\* CommandBuilder._save_execution_log: the file is opened with "w" and
\* written; `run` stands for the timestamp and duration lines, which tell
\* one execution from another.
_save_execution_log(files, timestamp, run, command, outcome) ==
  LET name == log_file(timestamp)
      record == [run |-> run, command |-> command, return_code |-> returncode(outcome),
                 stdout |-> stdout(outcome), stderr |-> stderr(outcome)]
  IN [f \in DOMAIN files \cup {name} |-> IF f = name THEN record ELSE files[f]]

\* handle_execute_command without its confirmation check.
BeforeExecuteUnconfirmed(ok, arguments) ==
  IF ~ok THEN Resp("execute_command", "no_binary", {}, << >>)
  ELSE IF arguments.command = << >> THEN Resp("execute_command", "no_command", {}, << >>)
  ELSE IF shlex_split(arguments.command).raised # ""
  THEN Resp("execute_command", "parse_error", {}, << >>)
  ELSE Resp("execute_command", "execute", {}, shlex_split(arguments.command).value)

\* handle_execute_command validating the binary at every request instead of
\* reading command_builder.
BeforeExecuteRevalidating(ok, arguments) ==
  IF _validate_binary(binary).raised # ""
  THEN Resp("execute_command", "no_binary", {}, << >>)
  ELSE IF ~Confirmed(arguments) THEN Resp("execute_command", "blocked", {}, << >>)
  ELSE BeforeExecuteUnconfirmed(TRUE, arguments)

\* handle_execute_command up to the executor: the response that ends it
\* early, or kind "execute" with the token vector handed to the executor.
BeforeExecute(ok, arguments) ==
  IF ~ok THEN Resp("execute_command", "no_binary", {}, << >>)
  ELSE IF ~Confirmed(arguments) THEN Resp("execute_command", "blocked", {}, << >>)
  ELSE IF arguments.command = << >> THEN Resp("execute_command", "no_command", {}, << >>)
  ELSE IF shlex_split(arguments.command).raised # ""
  THEN Resp("execute_command", "parse_error", {}, << >>)
  ELSE Resp("execute_command", "execute", {}, shlex_split(arguments.command).value)

AfterExecute(command, outcome) ==
  CASE outcome = "exit_0" -> Resp("execute_command", "completed", {}, command)
    [] outcome = "exit_1" -> Resp("execute_command", "failed", {}, command)
    [] OTHER -> Resp("execute_command", "execution_failed", {}, command)

\* ------------------------------------------------------------------ callers
\* The shapes of a variant object: the empty object, the minimally valid
\* object (its required fields, and for config_create a local output
\* directory).  A caller starts the matching variant from the minimal object
\* or leaves its key out.
Minimal(k) ==
  LET req == [f \in RequiredFields[k] |-> "a"]
  IN IF k = "config_create" THEN WithField(req, "output_dir", "a") ELSE req

\* A minimal object whose log_level is no member of LogLevel.
Malformed(k) == WithField(Minimal(k), "log_level", NotAMember)

Shapes == {"empty", "minimal", "malformed"}

Shaped(k, shape) ==
  CASE shape = "empty" -> EmptyObject
    [] shape = "minimal" -> Minimal(k)
    [] shape = "malformed" -> Malformed(k)

Others(a) == DOMAIN a.variants \ {a.command}

\* The keys of the matching variant that differ from the minimal object.
Edits(a) ==
  LET p == a.variants[a.command]
      q == Minimal(a.command)
  IN Cardinality({f \in Keys(p) \cup Keys(q) :
                    f \notin Keys(p) \/ f \notin Keys(q) \/ p[f] # q[f]})

Composing == resp = NoResp /\ call = NoCall

\* The matching variant is there and key f of it is as in the minimal object.
Untouched(f) ==
  LET p == args.variants[args.command]
      q == Minimal(args.command)
  IN IF f \in Keys(q) THEN f \in Keys(p) /\ p[f] = q[f] ELSE f \notin Keys(p)

\* The caller sets one key of the matching variant.
SetField(f, v) ==
  /\ Untouched(f)
  /\ args' = [args EXCEPT !.variants[args.command] = WithField(@, f, v)]
  /\ args' # args
  /\ UNCHANGED detector
  /\ UNCHANGED outside
  /\ UNCHANGED <<builder_ok, binary_path, FASTBCP_DIR_PATH, call, resp, executed, previewed>>

\* The caller drops one key of the matching variant.
RemoveField(f) ==
  /\ Untouched(f)
  /\ f \in Keys(args.variants[args.command])
  /\ args' = [args EXCEPT !.variants[args.command] = WithoutField(@, f)]
  /\ UNCHANGED detector
  /\ UNCHANGED outside
  /\ UNCHANGED <<builder_ok, binary_path, FASTBCP_DIR_PATH, call, resp, executed, previewed>>

\* The caller adds the object of another variant.
AddVariant(k, shape) ==
  /\ k # args.command
  /\ k \notin DOMAIN args.variants
  /\ args' = [args EXCEPT !.variants = WithField(@, k, Shaped(k, shape))]
  /\ UNCHANGED detector
  /\ UNCHANGED outside
  /\ UNCHANGED <<builder_ok, binary_path, FASTBCP_DIR_PATH, call, resp, executed, previewed>>

\* One step of a caller putting its arguments together.
EditField ==
  /\ Composing
  /\ Edits(args) < MaxEdits
  /\ \E f \in FieldNames[args.command] :
       \/ \E v \in Values(f, TypeOf[args.command][f]) : SetField(f, v)
       \/ RemoveField(f)

AddOther ==
  /\ Composing
  /\ Cardinality(Others(args)) < MaxOthers
  /\ \E k \in Kinds : \E shape \in Shapes : AddVariant(k, shape)

\* The server handles preview_command(arguments).
HandlePreview(arguments) ==
  /\ resp' = handle_preview_command(builder_ok, binary_path, FASTBCP_DIR_PATH, arguments)
  /\ previewed' = IF resp'.kind = "preview" THEN previewed \cup {resp'.command} ELSE previewed
  /\ UNCHANGED detector
  /\ UNCHANGED outside
  /\ UNCHANGED <<builder_ok, binary_path, FASTBCP_DIR_PATH, args, executed>>

\* The caller sends the arguments it has put together.
PreviewArgs ==
  /\ Composing
  /\ HandlePreview(args)
  /\ UNCHANGED call

\* Requests of every command with its own variant only: the caller starts
\* from the minimally valid object and edits it.
InitBuild ==
  /\ builder_ok = TRUE
  /\ \E d \in Deployments : binary_path = d[1] /\ FASTBCP_DIR_PATH = d[2]
  /\ \E c \in Kinds : args = [command |-> c, variants |-> WithField(EmptyObject, c, Minimal(c))]
  /\ call = NoCall
  /\ resp = NoResp
  /\ executed = << >>
  /\ previewed = {}
  /\ DetectorOfServer
  /\ OutsideOfServer

NextBuild ==
  \/ EditField
  \/ PreviewArgs

SpecBuild == InitBuild /\ [][NextBuild]_vars

\* A caller that reads the inputSchema adds one of the properties listed for
\* the command to the minimally valid object, or sets one anew.
SupplyAdvertised ==
  /\ Composing
  /\ args.variants[args.command] = Minimal(args.command)
  /\ \E f \in InputSchema[args.command] :
       \E v \in Values(f, SchemaTypeOf(args.command, f)) :
         /\ args' = [args EXCEPT !.variants[args.command] = WithField(@, f, v)]
         /\ args' # args
  /\ UNCHANGED detector
  /\ UNCHANGED outside
  /\ UNCHANGED <<builder_ok, binary_path, FASTBCP_DIR_PATH, call, resp, executed, previewed>>

NextSchema ==
  \/ SupplyAdvertised
  \/ PreviewArgs

SpecSchema == InitBuild /\ [][NextSchema]_vars

\* Requests whose variants need not match the command: the matching variant
\* is left out or has one of the shapes, and the caller adds other variants.
InitVariants ==
  /\ builder_ok = TRUE
  /\ \E d \in Deployments : binary_path = d[1] /\ FASTBCP_DIR_PATH = d[2]
  /\ \E c \in Kinds \cup {NoCommand, NotAMember} :
       \/ args = [command |-> c, variants |-> EmptyObject]
       \/ /\ c \in Kinds
          /\ \E shape \in Shapes :
               args = [command |-> c, variants |-> WithField(EmptyObject, c, Shaped(c, shape))]
  /\ call = NoCall
  /\ resp = NoResp
  /\ executed = << >>
  /\ previewed = {}
  /\ DetectorOfServer
  /\ OutsideOfServer

NextVariants ==
  \/ AddOther
  \/ PreviewArgs

SpecVariants == InitVariants /\ [][NextVariants]_vars

\* ------------------------------------------------------------------ server
\* The tools list_tools advertises besides preview_command and execute_command.
OtherTools == {"validate_auth_file", "list_capabilities", "suggest_workflow", "get_version"}

\* The preview_command arguments callers of the running server send.
SampleArguments ==
  { [command |-> "sync", variants |-> WithField(EmptyObject, "sync", EmptyObject)],
    [command |-> "run", variants |-> WithField(EmptyObject, "run", Minimal("run"))],
    [command |-> "logdb_init", variants |-> EmptyObject] }

\* Command strings a caller may send that no preview rendered: none, a shell
\* command, one with an unclosed quote.
ArbitraryCommands == {Symbols(""), Symbols("rm -rf /"), Symbols("say \"hi")}

\* A caller sends tools/call preview_command.
ReceivePreview ==
  /\ call = NoCall
  /\ \E a \in SampleArguments : call' = [name |-> "preview_command", arguments |-> a]
  /\ UNCHANGED detector
  /\ UNCHANGED outside
  /\ UNCHANGED <<builder_ok, binary_path, FASTBCP_DIR_PATH, args, resp, executed, previewed>>

\* A caller sends tools/call execute_command, with the full command of an
\* earlier preview or with any other string.
ReceiveExecute ==
  /\ call = NoCall
  /\ Len(executed) < MaxExec
  /\ \E c \in {Join(v) : v \in previewed} \cup ArbitraryCommands :
       \E conf \in Confirmations :
         call' = [name |-> "execute_command",
                  arguments |-> [command |-> c, confirmation |-> conf]]
  /\ UNCHANGED detector
  /\ UNCHANGED outside
  /\ UNCHANGED <<builder_ok, binary_path, FASTBCP_DIR_PATH, args, resp, executed, previewed>>

\* A caller sends tools/call with another tool name.
ReceiveOther ==
  /\ call = NoCall
  /\ \E n \in OtherTools \cup {"no_such_tool"} : call' = [name |-> n, arguments |-> << >>]
  /\ UNCHANGED detector
  /\ UNCHANGED outside
  /\ UNCHANGED <<builder_ok, binary_path, FASTBCP_DIR_PATH, args, resp, executed, previewed>>

\* call_tool, name == "preview_command".
CallPreview ==
  /\ call.name = "preview_command"
  /\ HandlePreview(call.arguments)
  /\ call' = NoCall

\* call_tool, name == "execute_command": handle_execute_command with the
\* executor's invocation, if it gets there.
CallExecute ==
  /\ call.name = "execute_command"
  /\ LET before == BeforeExecute(builder_ok, call.arguments)
     IN IF before.kind = "execute"
        THEN /\ executed' = Append(executed, before.command)
             /\ \E outcome \in Outcomes :
                  /\ results' = Append(results,
                                        [command |-> before.command, outcome |-> outcome,
                                         result |-> execute_command(before.command, outcome)])
                  /\ logs' = IF outcome \in Completed
                             THEN _save_execution_log(logs, now, Len(results) + 1,
                                                      before.command, outcome)
                             ELSE logs
                  /\ resp' = AfterExecute(before.command, outcome)
        ELSE /\ resp' = before
             /\ UNCHANGED <<executed, results, logs>>
  /\ call' = NoCall
  /\ UNCHANGED <<binary, now, displayed>>
  /\ UNCHANGED detector
  /\ UNCHANGED <<builder_ok, binary_path, FASTBCP_DIR_PATH, args, previewed>>

\* call_tool for the tools that neither build nor run a command; get_version
\* needs the builder.
CallOther ==
  /\ call.name \in OtherTools
  /\ resp' = IF call.name = "get_version" /\ ~builder_ok
             THEN Resp(call.name, "no_binary", {}, << >>)
             ELSE Resp(call.name, "text", {}, << >>)
  /\ call' = NoCall
  /\ UNCHANGED detector
  /\ UNCHANGED outside
  /\ UNCHANGED <<builder_ok, binary_path, FASTBCP_DIR_PATH, args, executed, previewed>>

\* call_tool, any other name.
CallUnknown ==
  /\ call.name \notin OtherTools \cup {"preview_command", "execute_command", ""}
  /\ resp' = Resp(call.name, "unknown_tool", {}, << >>)
  /\ call' = NoCall
  /\ UNCHANGED detector
  /\ UNCHANGED outside
  /\ UNCHANGED <<builder_ok, binary_path, FASTBCP_DIR_PATH, args, executed, previewed>>

\* The module-level initialisation of server.py: command_builder is the
\* builder, or None when the binary did not pass _validate_binary.
Init ==
  /\ builder_ok \in BOOLEAN
  /\ binary_path \in BinaryPaths
  /\ FASTBCP_DIR_PATH \in FastbcpDirs
  /\ args = NoArgs
  /\ call = NoCall
  /\ resp = NoResp
  /\ executed = << >>
  /\ previewed = {}
  /\ DetectorOfServer
  /\ OutsideOfServer

Next ==
  \/ ReceivePreview
  \/ ReceiveExecute
  \/ ReceiveOther
  \/ CallPreview
  \/ CallExecute
  \/ CallOther
  \/ CallUnknown

Spec == Init /\ [][Next]_vars

\* A second passes.
Tick ==
  /\ now < MaxSeconds
  /\ now' = now + 1
  /\ UNCHANGED <<binary, logs, results, displayed>>
  /\ UNCHANGED detector
  /\ UNCHANGED <<builder_ok, binary_path, FASTBCP_DIR_PATH, args, call, resp, executed,
                 previewed>>

\* What is at the binary path changes: the file is installed, removed, or
\* its mode changed.
BinaryChanges ==
  /\ \E b \in BinaryStates : binary' = b /\ b # binary
  /\ UNCHANGED <<now, logs, results, displayed>>
  /\ UNCHANGED detector
  /\ UNCHANGED <<builder_ok, binary_path, FASTBCP_DIR_PATH, args, call, resp, executed,
                 previewed>>

\* The calls a client of the running server sends while the surroundings
\* change: a preview, an execution of a command line, get_version.
HostArguments == [command |-> "run", variants |-> WithField(EmptyObject, "run", Minimal("run"))]

HostCommands == {Symbols("LakeXpress sync"), Symbols("LakeXpress status")}

HostPreview ==
  /\ call = NoCall
  /\ call' = [name |-> "preview_command", arguments |-> HostArguments]
  /\ UNCHANGED detector
  /\ UNCHANGED outside
  /\ UNCHANGED <<builder_ok, binary_path, FASTBCP_DIR_PATH, args, resp, executed, previewed>>

HostExecute ==
  /\ call = NoCall
  /\ Len(executed) < MaxExec
  /\ \E c \in HostCommands :
       call' = [name |-> "execute_command",
                arguments |-> [command |-> c, confirmation |-> "true"]]
  /\ UNCHANGED detector
  /\ UNCHANGED outside
  /\ UNCHANGED <<builder_ok, binary_path, FASTBCP_DIR_PATH, args, resp, executed, previewed>>

HostVersion ==
  /\ call = NoCall
  /\ call' = [name |-> "get_version", arguments |-> << >>]
  /\ UNCHANGED detector
  /\ UNCHANGED outside
  /\ UNCHANGED <<builder_ok, binary_path, FASTBCP_DIR_PATH, args, resp, executed, previewed>>

\* The server in its surroundings: the clock runs and the binary path
\* changes while the server handles calls.
InitHost ==
  /\ builder_ok \in BOOLEAN
  /\ binary_path = "LakeXpress"
  /\ FASTBCP_DIR_PATH = ""
  /\ args = NoArgs
  /\ call = NoCall
  /\ resp = NoResp
  /\ executed = << >>
  /\ previewed = {}
  /\ DetectorOfServer
  /\ OutsideOfServer

NextHost ==
  \/ HostPreview
  \/ HostExecute
  \/ HostVersion
  \/ CallPreview
  \/ CallExecute
  \/ CallOther
  \/ Tick
  \/ BinaryChanges

SpecHost == InitHost /\ [][NextHost]_vars

\* ------------------------------------------------------------------ detector
\* VersionDetector.__init__: a detector that has not detected yet.
FreshDetector ==
  /\ _detection_done = FALSE
  /\ _detected_version = NoVersion
  /\ probes = 0
  /\ probed = << >>
  /\ threads = NoThreads
  /\ detected = << >>

\* detect, lines 213-218: the except clauses, in order, and whether a clause
\* catches an exception of the probe (each derives from Exception).
ExceptClauses == <<"TimeoutExpired", "FileNotFoundError", "Exception">>

\* A clause that catches the exception of its own name only.
CatchesByName(clause, exc) == clause = exc

Catches(clause, exc) == clause = exc \/ clause = "Exception"

\* The exception detect() lets out of a probe, "" for none.
Escaping(result) ==
  IF result.raised = "" \/ \E i \in DOMAIN ExceptClauses : Catches(ExceptClauses[i], result.raised)
  THEN ""
  ELSE result.raised

\* The detect() call of this step ran the probe and raised.
DetectRaised == probed' # probed /\ probed'[Len(probed')].raised # ""

\* detect() that remembers a detected version only, and probes again after
\* a probe that detected none.
DetectUnlessDetected(result) ==
  IF _detected_version # NoVersion
  THEN UNCHANGED <<_detection_done, _detected_version, probes, probed>>
  ELSE /\ _detection_done' = TRUE
       /\ probes' = probes + 1
       /\ probed' = Append(probed, [result |-> result, raised |-> Escaping(result)])
       /\ _detected_version' = Matched(result)

\* detect() run to its end by one caller, the probe ending with `result`:
\* lines 189-220.  _detected_version is assigned only on a match.
DetectCall(result) ==
  IF _detection_done
  THEN UNCHANGED <<_detection_done, _detected_version, probes, probed>>
  ELSE /\ _detection_done' = TRUE
       /\ probes' = probes + 1
       /\ probed' = Append(probed, [result |-> result, raised |-> Escaping(result)])
       /\ _detected_version' =
            IF Matched(result) # NoVersion THEN Matched(result) ELSE _detected_version

\* CommandBuilder.__init__ with a binary that passes _validate_binary: the
\* detector is created and detect() called.
Construct ==
  /\ ~builder_ok
  /\ ~_detection_done
  /\ \E result \in ProbeResults : DetectCall(result)
  /\ builder_ok' = ~DetectRaised
  /\ detected' = IF DetectRaised THEN detected ELSE Append(detected, _detected_version')
  /\ UNCHANGED outside
  /\ UNCHANGED <<binary_path, FASTBCP_DIR_PATH, args, call, resp, executed, previewed>>
  /\ UNCHANGED <<_SORTED_VERSIONS, threads, resolved, builds>>

\* A call of detect().
Detect ==
  /\ Len(detected) < MaxCalls
  /\ \E result \in ProbeResults : DetectCall(result)
  /\ detected' = IF DetectRaised THEN detected ELSE Append(detected, _detected_version')
  /\ UNCHANGED outside
  /\ UNCHANGED <<builder_ok, binary_path, FASTBCP_DIR_PATH, args, call, resp, executed,
                 previewed>>
  /\ UNCHANGED <<_SORTED_VERSIONS, threads, resolved, builds>>

\* An access of the capabilities property: detect() if it has not run, then
\* the resolution against the registry.
Capabilities ==
  /\ Len(resolved) < MaxResolved
  /\ \E result \in ProbeResults : DetectCall(result)
  /\ resolved' =
       IF DetectRaised THEN resolved
       ELSE Append(resolved,
                   [version |-> _detected_version',
                    capabilities |-> Resolve(_SORTED_VERSIONS, _detected_version')])
  /\ UNCHANGED outside
  /\ UNCHANGED <<builder_ok, binary_path, FASTBCP_DIR_PATH, args, call, resp, executed,
                 previewed>>
  /\ UNCHANGED <<_SORTED_VERSIONS, threads, detected, builds>>

\* Another VersionDetector is created and takes the place of the one in use.
NewDetector ==
  /\ _detection_done
  /\ _detection_done' = FALSE
  /\ _detected_version' = NoVersion
  /\ probes' = 0
  /\ probed' = << >>
  /\ threads' = NoThreads
  /\ detected' = << >>
  /\ UNCHANGED outside
  /\ UNCHANGED <<builder_ok, binary_path, FASTBCP_DIR_PATH, args, call, resp, executed,
                 previewed>>
  /\ UNCHANGED <<_SORTED_VERSIONS, resolved, builds>>

\* Validated requests a caller hands to build_command.
BuildSamples ==
  { [command |-> "run", variants |-> WithField(EmptyObject, "run", Minimal("run"))],
    [command |-> "cleanup",
     variants |-> WithField(EmptyObject, "cleanup",
                            WithField(Minimal("cleanup"), "dry_run", TRUE))],
    [command |-> "config_create",
     variants |-> WithField(EmptyObject, "config_create",
                            WithField(Minimal("config_create"), "incremental_table",
                                      <<"t1", "t2">>))] }

\* A caller constructs a request.
ChooseRequest ==
  /\ \E a \in BuildSamples : args' = a
  /\ args' # args
  /\ UNCHANGED detector
  /\ UNCHANGED outside
  /\ UNCHANGED <<builder_ok, binary_path, FASTBCP_DIR_PATH, call, resp, executed, previewed>>

\* command_builder.build_command(request).
CallBuild ==
  /\ builder_ok
  /\ args \in BuildSamples
  /\ Len(builds) < MaxCalls
  /\ builds' = Append(builds, [request |-> args, result |-> build_command(binary_path, args)])
  /\ UNCHANGED <<_SORTED_VERSIONS, _detection_done, _detected_version, probes, probed,
                 threads, detected, resolved>>
  /\ UNCHANGED outside
  /\ UNCHANGED <<builder_ok, binary_path, FASTBCP_DIR_PATH, args, call, resp, executed,
                 previewed>>

\* One detector from its creation, the builder that owns it, and the calls
\* on both, each run to its end before the next.
InitDetect ==
  /\ builder_ok = FALSE
  /\ binary_path \in BinaryPaths
  /\ FASTBCP_DIR_PATH = ""
  /\ args = NoArgs
  /\ call = NoCall
  /\ resp = NoResp
  /\ executed = << >>
  /\ previewed = {}
  /\ _SORTED_VERSIONS = SortedVersions(VERSION_REGISTRY)
  /\ FreshDetector
  /\ resolved = << >>
  /\ builds = << >>
  /\ binary = "executable"
  /\ NothingRun

NextDetect ==
  \/ Construct
  \/ Detect
  \/ Capabilities
  \/ ChooseRequest
  \/ CallBuild

SpecDetect == InitDetect /\ [][NextDetect]_vars

\* Detectors, one after the other, each read for its capabilities against
\* one registry.
InitResolve ==
  /\ builder_ok = FALSE
  /\ binary_path = "LakeXpress"
  /\ FASTBCP_DIR_PATH = ""
  /\ args = NoArgs
  /\ call = NoCall
  /\ resp = NoResp
  /\ executed = << >>
  /\ previewed = {}
  /\ \E registry \in Registries : _SORTED_VERSIONS = SortedVersions(registry)
  /\ FreshDetector
  /\ resolved = << >>
  /\ builds = << >>
  /\ binary = "executable"
  /\ NothingRun

NextResolve ==
  \/ Capabilities
  \/ NewDetector

SpecResolve == InitResolve /\ [][NextResolve]_vars

\* ------------------------------------------------------------------ threads
\* Callers that use one detector at the same time.  A caller is at a line
\* of detect() or of capabilities; between two lines another caller may run.
Threads == 1..MaxThreads

Idle == [op |-> "", pc |-> "idle", matched |-> NoVersion]

At(t, line) == t \in DOMAIN threads /\ threads[t].pc = line

Goto(t, line) == threads' = [threads EXCEPT ![t].pc = line]

OnlyThreads ==
  UNCHANGED <<builder_ok, binary_path, FASTBCP_DIR_PATH, args, call, resp, executed,
              previewed, _SORTED_VERSIONS, builds, binary, now, logs, results, displayed>>

\* A caller calls detect() or reads capabilities.
ThreadCall ==
  \E t \in Threads : \E op \in {"detect", "capabilities"} :
    /\ At(t, "idle")
    /\ threads' = [threads EXCEPT ![t] =
                     [op |-> op, pc |-> IF op = "detect" THEN "189" ELSE "230",
                      matched |-> NoVersion]]
    /\ UNCHANGED <<_detection_done, _detected_version, probes, probed, detected, resolved>>
    /\ OnlyThreads

\* capabilities, line 230: `if not self._detection_done: self.detect()`.
CapabilitiesCheck ==
  \E t \in Threads :
    /\ At(t, "230")
    /\ Goto(t, IF _detection_done THEN "233" ELSE "189")
    /\ UNCHANGED <<_detection_done, _detected_version, probes, probed, detected, resolved>>
    /\ OnlyThreads

\* detect, lines 189-190: `if self._detection_done: return ...`.
DetectCheck ==
  \E t \in Threads :
    /\ At(t, "189")
    /\ Goto(t, IF _detection_done THEN "220" ELSE "192")
    /\ UNCHANGED <<_detection_done, _detected_version, probes, probed, detected, resolved>>
    /\ OnlyThreads

\* detect, line 192: `self._detection_done = True`.
DetectSetDone ==
  \E t \in Threads :
    /\ At(t, "192")
    /\ _detection_done' = TRUE
    /\ Goto(t, "195")
    /\ UNCHANGED <<_detected_version, probes, probed, detected, resolved>>
    /\ OnlyThreads

\* detect, lines 195-203: the probe runs and ends.
DetectProbe ==
  \E t \in Threads : \E result \in ProbeResults :
    /\ At(t, "195")
    /\ probes' = probes + 1
    /\ probed' = Append(probed, [result |-> result, raised |-> Escaping(result)])
    /\ threads' = [threads EXCEPT ![t].pc = "204", ![t].matched = Matched(result)]
    /\ UNCHANGED <<_detection_done, _detected_version, detected, resolved>>
    /\ OnlyThreads

\* detect, lines 204-218: a match is stored in _detected_version.
DetectStore ==
  \E t \in Threads :
    /\ At(t, "204")
    /\ _detected_version' =
         IF threads[t].matched # NoVersion THEN threads[t].matched ELSE _detected_version
    /\ threads' = [threads EXCEPT ![t].pc = "220", ![t].matched = NoVersion]
    /\ UNCHANGED <<_detection_done, probes, probed, detected, resolved>>
    /\ OnlyThreads

\* detect, line 220 (and 190): `return self._detected_version`, to the
\* caller or into capabilities.
DetectReturn ==
  \E t \in Threads :
    /\ At(t, "220")
    /\ IF threads[t].op = "detect"
       THEN /\ detected' = Append(detected, _detected_version)
            /\ Goto(t, "done")
       ELSE /\ UNCHANGED detected
            /\ Goto(t, "233")
    /\ UNCHANGED <<_detection_done, _detected_version, probes, probed, resolved>>
    /\ OnlyThreads

\* capabilities, lines 233-257: the resolution is returned.
CapabilitiesReturn ==
  \E t \in Threads :
    /\ At(t, "233")
    /\ resolved' = Append(resolved,
                          [version |-> _detected_version,
                           capabilities |-> Resolve(_SORTED_VERSIONS, _detected_version)])
    /\ Goto(t, "done")
    /\ UNCHANGED <<_detection_done, _detected_version, probes, probed, detected>>
    /\ OnlyThreads

InitThreads ==
  /\ builder_ok = FALSE
  /\ binary_path = "LakeXpress"
  /\ FASTBCP_DIR_PATH = ""
  /\ args = NoArgs
  /\ call = NoCall
  /\ resp = NoResp
  /\ executed = << >>
  /\ previewed = {}
  /\ _SORTED_VERSIONS = SortedVersions(VERSION_REGISTRY)
  /\ _detection_done = FALSE
  /\ _detected_version = NoVersion
  /\ probes = 0
  /\ probed = << >>
  /\ threads = [t \in Threads |-> Idle]
  /\ detected = << >>
  /\ resolved = << >>
  /\ builds = << >>
  /\ binary = "executable"
  /\ NothingRun

NextThreads ==
  \/ ThreadCall
  \/ CapabilitiesCheck
  \/ DetectCheck
  \/ DetectSetDone
  \/ DetectProbe
  \/ DetectStore
  \/ DetectReturn
  \/ CapabilitiesReturn

SpecThreads == InitThreads /\ [][NextThreads]_vars

\* ------------------------------------------------------------------ rendering
\* format_command_display returns the string for the vector it was called
\* with.
FormatCommandDisplay ==
  /\ displayed.command # << >>
  /\ displayed.text = << >>
  /\ displayed' = [displayed EXCEPT !.text = format_command_display(displayed.command)]
  /\ UNCHANGED <<binary, now, logs, results>>
  /\ UNCHANGED detector
  /\ UNCHANGED <<builder_ok, binary_path, FASTBCP_DIR_PATH, args, call, resp, executed,
                 previewed>>

InitDisplay ==
  /\ builder_ok = TRUE
  /\ binary_path = "LakeXpress"
  /\ FASTBCP_DIR_PATH = ""
  /\ args = NoArgs
  /\ call = NoCall
  /\ resp = NoResp
  /\ executed = << >>
  /\ previewed = {}
  /\ DetectorOfServer
  /\ binary = "executable"
  /\ now = 0
  /\ logs = NoFiles
  /\ results = << >>
  /\ \E command \in DisplayVectors : displayed = [command |-> command, text |-> << >>]

NextDisplay == FormatCommandDisplay

SpecDisplay == InitDisplay /\ [][NextDisplay]_vars

\* ------------------------------------------------------------------ claims
\* A token vector as the executor receives it: each token by its symbols.
Tokens(v) == [i \in DOMAIN v |-> Symbols(v[i])]

\* C1: the executor is invoked only while the server handles an
\* execute_command call whose confirmation is true: no step that handles a
\* preview_command call, another tool, or an execute_command call with
\* confirmation false or absent adds an executor invocation.
C1_ExecutorOnlyOnConfirmedExecute ==
  [][executed' # executed =>
       /\ call.name = "execute_command"
       /\ call.arguments.confirmation = "true"]_vars

\* A confirmed execute_command call has reached the executor.
C1_Witness ==
  /\ executed # << >>
  /\ resp.tool = "execute_command"
  /\ resp.kind \in {"completed", "failed", "execution_failed"}

\* C2: every token vector the executor has been given is one that an earlier
\* preview_command call of this server process rendered.
C2_ExecutedWasPreviewed ==
  \A i \in DOMAIN executed : \E v \in previewed : executed[i] = Tokens(v)

\* The "missing parameters for command" error of kind k, naming the expected
\* parameter field (the field of the request that carries k's variant).
MissingParams(k) ==
  Error(<< >>, "value_error",
        <<"Command '", k, "' requires '", k, "' parameters to be provided.">>)

\* A preview of a request of one of the 14 kinds that lacks its own variant.
MatchingAbsent ==
  /\ resp.tool = "preview_command"
  /\ args.command \in Kinds
  /\ args.command \notin DOMAIN args.variants

\* Every non-matching variant of the request is a valid object of its model.
OthersValid ==
  \A k \in Others(args) : ValidateParams(k, AutoFill(args, FASTBCP_DIR_PATH).variants[k]) = {}

\* The request with its non-matching variants taken out.
OnlyMatching(a) ==
  [a EXCEPT !.variants = [k \in DOMAIN a.variants \cap {a.command} |-> a.variants[k]]]

Sent == args.variants[args.command]

Validated == AutoFill(args, FASTBCP_DIR_PATH).variants[args.command]

\* Key f is there / is there with a non-empty string.
Present(p, f) == f \in DOMAIN p

NonEmpty(p, f) == f \in DOMAIN p /\ p[f] # ""

\* A preview of a config_create request whose fields each validate.
ConfigCreateChecked ==
  /\ resp.tool = "preview_command"
  /\ args.command = "config_create"
  /\ FieldErrors("config_create", Sent) = {}

\* The response carries exactly one error, raised for the config_create
\* object as a whole, whose message starts with `head`.
RejectedWith(head) ==
  /\ resp.kind = "validation_error"
  /\ \E e \in resp.errors :
       resp.errors = {e} /\ e.loc = <<"config_create">> /\ e.msg[1] = head

\* C4 as stated, presence read as in C10 (non-null): a config_create object
\* is accepted if and only if exactly one of output_dir and
\* target_storage_id is present and publish_method is present only together
\* with publish_target.
C4_AcceptedIffPresent ==
  ConfigCreateChecked =>
    (resp.kind = "preview" <=>
       /\ Present(Sent, "output_dir") # Present(Sent, "target_storage_id")
       /\ Present(Sent, "publish_method") => Present(Sent, "publish_target"))

\* C4, amended: a config_create object is accepted if and only if exactly
\* one of output_dir and target_storage_id is a non-empty string and
\* publish_method is set only together with a non-empty publish_target (an
\* empty string counts as absent).  Both destinations fail with the
\* mutual-exclusivity error, neither with the missing-destination error, and
\* with one destination a publish_method without publish_target fails with
\* the publish error.
C4_AcceptedIffNonEmpty ==
  ConfigCreateChecked =>
    LET both == NonEmpty(Sent, "output_dir") /\ NonEmpty(Sent, "target_storage_id")
        neither == ~NonEmpty(Sent, "output_dir") /\ ~NonEmpty(Sent, "target_storage_id")
        lone == NonEmpty(Sent, "publish_method") /\ ~NonEmpty(Sent, "publish_target")
    IN /\ resp.kind = "preview" <=> (~both /\ ~neither /\ ~lone)
       /\ both => RejectedWith("output_dir and target_storage_id are mutually exclusive. ")
       /\ neither =>
            RejectedWith("At least one of output_dir or target_storage_id must be provided.")
       /\ (~both /\ ~neither /\ lone) =>
            RejectedWith("publish_method requires publish_target to be set.")

\* A config_create object with one destination and with publish_method
\* together with publish_target was accepted.
C4_Witness ==
  /\ ConfigCreateChecked
  /\ resp.kind = "preview"
  /\ NonEmpty(Sent, "publish_method")
  /\ NonEmpty(Sent, "publish_target")

\* The rules a variant object of kind k violates: a required field missing,
\* an enumeration field holding no member, and for config_create the
\* destination rule and the publish rule.
FieldRulesViolated(k, p) ==
  {<<"missing", f>> : f \in RequiredFields[k] \ DOMAIN p}
  \cup
  {<<"enum", f>> : f \in {g \in DOMAIN p : /\ TypeOf[k][g] \in EnumTypes
                                           /\ p[g] \notin EnumMembers(TypeOf[k][g])}}

DestinationRuleViolated(k, p) ==
  /\ k = "config_create"
  /\ NonEmpty(p, "output_dir") = NonEmpty(p, "target_storage_id")

PublishRuleViolated(k, p) ==
  /\ k = "config_create"
  /\ Present(p, "publish_method")
  /\ p["publish_method"] \in PublishMethod
  /\ ~NonEmpty(p, "publish_target")

RulesViolated(k, p) ==
  FieldRulesViolated(k, p)
  \cup (IF DestinationRuleViolated(k, p) THEN {<<"rule", "destination">>} ELSE {})
  \cup (IF PublishRuleViolated(k, p) THEN {<<"rule", "publish">>} ELSE {})

\* The rule one error of the response reports.
RuleOf(e) ==
  IF e.type \in {"missing", "enum"} THEN <<e.type, e.loc[Len(e.loc)]>>
  ELSE IF e.msg[1] = "publish_method requires publish_target to be set."
  THEN <<"rule", "publish">>
  ELSE <<"rule", "destination">>

RulesReported == {RuleOf(e) : e \in resp.errors}

\* C5 as stated: the validation error lists every rule the request violates,
\* also when it violates several at once (required fields missing together
\* with a cross-field rule, or both config_create rules).
C5_AllViolationsReported ==
  resp.tool = "preview_command" => RulesReported = RulesViolated(args.command, Sent)

\* A request violating several rules at once was refused.
C5_Witness ==
  /\ resp.tool = "preview_command"
  /\ resp.kind = "validation_error"
  /\ Cardinality(RulesViolated(args.command, Sent)) >= 2

\* The token that follows `flag` at position i of a vector.
Follows(cmd, i, flag) == i < Len(cmd) /\ cmd[i] = flag

\* C6: an empty sync_id of a config_delete or cleanup request and an empty
\* config of a run request are refused by validation, so that no built
\* vector carries an empty value after --sync_id (config_delete, cleanup)
\* or after -c (run).
C6_RequiredIdentifiersNonEmpty ==
  resp.tool = "preview_command" =>
    LET k == args.command
    IN /\ (k \in {"config_delete", "cleanup"} /\ Present(Sent, "sync_id") /\ Sent["sync_id"] = "")
            => resp.kind = "validation_error"
       /\ (k = "run" /\ Present(Sent, "config") /\ Sent["config"] = "")
            => resp.kind = "validation_error"
       /\ resp.kind = "preview" =>
            \A i \in DOMAIN resp.command :
              /\ (k \in {"config_delete", "cleanup"} /\ Follows(resp.command, i, "--sync_id"))
                   => resp.command[i + 1] # ""
              /\ (k = "run" /\ Follows(resp.command, i, "-c")) => resp.command[i + 1] # ""

\* The subcommand tokens of each kind.
Subcommand(k) ==
  CASE k = "logdb_init" -> <<"logdb", "init">>
    [] k = "logdb_drop" -> <<"logdb", "drop">>
    [] k = "logdb_truncate" -> <<"logdb", "truncate">>
    [] k = "logdb_locks" -> <<"logdb", "locks">>
    [] k = "logdb_release_locks" -> <<"logdb", "release-locks">>
    [] k = "config_create" -> <<"config", "create">>
    [] k = "config_delete" -> <<"config", "delete">>
    [] k = "config_list" -> <<"config", "list">>
    [] k = "sync" -> <<"sync">>
    [] k = "sync_export" -> <<"sync[export]">>
    [] k = "sync_publish" -> <<"sync[publish]">>
    [] k = "run" -> <<"run">>
    [] k = "status" -> <<"status">>
    [] k = "cleanup" -> <<"cleanup">>

\* C8: a request that validates is built without an exception, and the
\* vector starts with the binary path followed by the subcommand token or
\* tokens of the request's kind.
C8_BinaryThenSubcommand ==
  (/\ resp.tool = "preview_command"
   /\ ValidateRequest(AutoFill(args, FASTBCP_DIR_PATH)) = {}) =>
    LET sub == Subcommand(args.command)
    IN /\ resp.kind = "preview"
       /\ Len(resp.command) >= 1 + Len(sub)
       /\ resp.command[1] = binary_path
       /\ SubSeq(resp.command, 2, 1 + Len(sub)) = sub

\* A sync[export] request, with another valid variant beside it, was built.
C8_Witness ==
  /\ resp.tool = "preview_command"
  /\ resp.kind = "preview"
  /\ args.command = "sync_export"
  /\ Others(args) # {}
  /\ resp.command[2] = "sync[export]"

\* The options every kind but sync, sync[export], sync[publish] and run
\* starts with, and the ones those four end with.
GlobalFlags ==
  <<"-a", "--log_db_auth_id", "--log_level", "--log_dir", "--no_progress", "--no_banner">>

CommonFlags == <<"--log_level", "--log_dir", "--no_progress", "--no_banner">>

\* The fixed order of the flags of each kind.
FlagOrder(k) ==
  CASE k = "logdb_init" -> GlobalFlags
    [] k = "logdb_drop" -> GlobalFlags \o <<"--confirm">>
    [] k = "logdb_truncate" -> GlobalFlags \o <<"--sync_id", "--confirm">>
    [] k = "logdb_locks" -> GlobalFlags \o <<"--sync_id">>
    [] k = "logdb_release_locks" ->
         GlobalFlags \o <<"--max_age_hours", "--table_id", "--confirm">>
    [] k = "config_create" ->
         GlobalFlags \o
         <<"--source_db_auth_id", "--source_db_name", "--source_schema_name",
           "-i", "-e", "--min_rows", "--max_rows",
           "--incremental_table", "--incremental_safety_lag",
           "--output_dir", "--target_storage_id", "--sub_path",
           "--fastbcp_dir_path", "-p", "--n_jobs", "--compression_type",
           "--large_table_threshold", "--fastbcp_table_config",
           "--publish_target", "--publish_method", "--publish_database_name",
           "--publish_schema_pattern", "--publish_table_pattern",
           "--no_views", "--pk_constraints", "--generate_metadata", "--manifest_name",
           "--sync_id", "--error_action", "--env_name">>
    [] k = "config_delete" -> GlobalFlags \o <<"--sync_id", "--confirm">>
    [] k = "config_list" -> GlobalFlags \o <<"--env_name">>
    [] k = "sync" ->
         <<"--sync_id", "--resume", "--run_id", "-a", "--fastbcp_dir_path">> \o CommonFlags
    [] k = "sync_export" -> <<"--sync_id", "-a", "--fastbcp_dir_path">> \o CommonFlags
    [] k = "sync_publish" -> <<"--sync_id", "--run_id", "-a">> \o CommonFlags
    [] k = "run" -> <<"-c", "-a", "--log_db_auth_id">> \o CommonFlags
    [] k = "status" -> GlobalFlags \o <<"--sync_id", "--run_id", "--verbose">>
    [] k = "cleanup" -> GlobalFlags \o <<"--sync_id", "--older-than", "--status", "--dry-run">>

\* The tokens a value of some field renders to.
ValueTokens ==
  StrValues \cup PathValues \cup FastbcpDirs \cup TableSpecs
  \cup {ToString(n) : n \in IntValues}
  \cup UNION {EnumMembers(t) : t \in EnumTypes}

IsFlag(t) == t \notin ValueTokens

\* The flags of a built vector of kind k, in the order they occur.
FlagsOf(k, cmd) == SelectSeq(SubSeq(cmd, 2 + Len(Subcommand(k)), Len(cmd)), IsFlag)

Rank(order, t) == CHOOSE n \in DOMAIN order : order[n] = t

\* C9: the flags of a built vector are flags of the kind's fixed order and
\* occur in that order, whichever optional fields are set; only
\* --incremental_table may repeat.
C9_FlagsInFixedOrder ==
  (resp.tool = "preview_command" /\ resp.kind = "preview") =>
    LET order == FlagOrder(args.command)
        flags == FlagsOf(args.command, resp.command)
    IN /\ \A i \in DOMAIN flags : flags[i] \in Range(order)
       /\ \A i, j \in DOMAIN flags :
            i < j =>
              \/ Rank(order, flags[i]) < Rank(order, flags[j])
              \/ flags[i] = flags[j] /\ flags[i] = "--incremental_table"

\* A cleanup vector with both --older-than and --status was built.
C9_Witness ==
  /\ resp.tool = "preview_command"
  /\ resp.kind = "preview"
  /\ args.command = "cleanup"
  /\ {"--older-than", "--status"} \subseteq Range(resp.command)

\* The flag of each value-carrying field.
FlagOf(f) ==
  CASE f = "auth_file" -> "-a"
    [] f = "log_db_auth_id" -> "--log_db_auth_id"
    [] f = "log_level" -> "--log_level"
    [] f = "log_dir" -> "--log_dir"
    [] f = "sync_id" -> "--sync_id"
    [] f = "run_id" -> "--run_id"
    [] f = "max_age_hours" -> "--max_age_hours"
    [] f = "table_id" -> "--table_id"
    [] f = "source_db_auth_id" -> "--source_db_auth_id"
    [] f = "source_db_name" -> "--source_db_name"
    [] f = "source_schema_name" -> "--source_schema_name"
    [] f = "include" -> "-i"
    [] f = "exclude" -> "-e"
    [] f = "min_rows" -> "--min_rows"
    [] f = "max_rows" -> "--max_rows"
    [] f = "incremental_safety_lag" -> "--incremental_safety_lag"
    [] f = "output_dir" -> "--output_dir"
    [] f = "target_storage_id" -> "--target_storage_id"
    [] f = "sub_path" -> "--sub_path"
    [] f = "fastbcp_dir_path" -> "--fastbcp_dir_path"
    [] f = "fastbcp_p" -> "-p"
    [] f = "n_jobs" -> "--n_jobs"
    [] f = "compression_type" -> "--compression_type"
    [] f = "large_table_threshold" -> "--large_table_threshold"
    [] f = "fastbcp_table_config" -> "--fastbcp_table_config"
    [] f = "publish_target" -> "--publish_target"
    [] f = "publish_method" -> "--publish_method"
    [] f = "publish_database_name" -> "--publish_database_name"
    [] f = "publish_schema_pattern" -> "--publish_schema_pattern"
    [] f = "publish_table_pattern" -> "--publish_table_pattern"
    [] f = "manifest_name" -> "--manifest_name"
    [] f = "error_action" -> "--error_action"
    [] f = "env_name" -> "--env_name"
    [] f = "config" -> "-c"
    [] f = "older_than" -> "--older-than"
    [] f = "status" -> "--status"

\* The optional fields of kind k that carry one value (no switches, no lists).
OptionalValueFields(k) ==
  {f \in FieldNames[k] : f \notin RequiredFields[k] /\ TypeOf[k][f] \notin {"bool", "list"}}

\* str(value) of field f of kind k.
Stringified(k, f, v) == IF TypeOf[k][f] = "int" THEN ToString(v) ELSE v

\* The vector has `flag` with `value` right after it.
Emitted(cmd, flag, value) ==
  \E i \in DOMAIN cmd : Follows(cmd, i, flag) /\ cmd[i + 1] = value

\* C10 as stated: for every optional value-carrying field, the vector has
\* the field's flag immediately followed by the stringified value if and
\* only if the field is present (non-null) in the validated parameters.
C10_EmittedIffPresent ==
  (resp.tool = "preview_command" /\ resp.kind = "preview") =>
    \A f \in OptionalValueFields(args.command) :
      IF Present(Validated, f)
      THEN Emitted(resp.command, FlagOf(f), Stringified(args.command, f, Validated[f]))
      ELSE FlagOf(f) \notin Range(resp.command)

\* C10, amended: an optional integer field is emitted, its flag immediately
\* followed by the base-10 numeral (0 as "0"), if and only if it is present
\* (non-null); an optional string or enumeration field is emitted, its flag
\* immediately followed by the value, if and only if it is present and not
\* the empty string; otherwise the flag does not occur in the vector.
C10_EmittedIffPresentAndNonEmpty ==
  (resp.tool = "preview_command" /\ resp.kind = "preview") =>
    \A f \in OptionalValueFields(args.command) :
      IF /\ Present(Validated, f)
         /\ (TypeOf[args.command][f] = "int" \/ Validated[f] # "")
      THEN Emitted(resp.command, FlagOf(f), Stringified(args.command, f, Validated[f]))
      ELSE FlagOf(f) \notin Range(resp.command)

\* An optional integer field set to 0 was emitted as "0".
C10_Witness ==
  /\ resp.tool = "preview_command"
  /\ resp.kind = "preview"
  /\ args.command = "logdb_release_locks"
  /\ Present(Validated, "max_age_hours")
  /\ Validated["max_age_hours"] = 0
  /\ Emitted(resp.command, "--max_age_hours", "0")

\* The positions of `flag` in a vector, and the i-th of them from the left.
Positions(cmd, flag) == {i \in DOMAIN cmd : cmd[i] = flag}

Nth(at, i) == CHOOSE x \in at : Cardinality({y \in at : y < x}) = i - 1

\* A config_create request was built.
ConfigCreateBuilt ==
  /\ resp.tool = "preview_command"
  /\ resp.kind = "preview"
  /\ args.command = "config_create"

\* C11: the vector of a config_create request whose incremental_table is
\* the list [t1, ..., tn] has exactly n occurrences of --incremental_table,
\* the i-th immediately followed by ti, in list order; an absent or empty
\* list gives no occurrence.
C11_IncrementalTableRepeated ==
  ConfigCreateBuilt =>
    LET list == IF Present(Validated, "incremental_table")
                THEN Validated["incremental_table"] ELSE << >>
        at == Positions(resp.command, "--incremental_table")
    IN /\ Cardinality(at) = Len(list)
       /\ \A i \in 1..Len(list) :
            /\ Nth(at, i) < Len(resp.command)
            /\ resp.command[Nth(at, i) + 1] = list[i]

\* A config_create request with the list [t2, t1] was built.
C11_Witness ==
  /\ ConfigCreateBuilt
  /\ Present(Validated, "incremental_table")
  /\ Validated["incremental_table"] = <<"t2", "t1">>
  /\ Cardinality(Positions(resp.command, "--incremental_table")) = 2

\* The two credential fields of the shared global options.
Credentials == {"auth_file", "log_db_auth_id"}

\* The request in hand is of a kind that requires both credential fields:
\* a request that lacks one is refused with that field reported missing,
\* and a built vector carries -a <auth_file> --log_db_auth_id <id> right
\* after the subcommand, as the shared global-options routine emits them.
CredentialsMandatory ==
  /\ \A f \in Credentials :
       ~Present(Sent, f) =>
         /\ resp.kind = "validation_error"
         /\ \E e \in resp.errors : e.loc = <<args.command, f>> /\ e.type = "missing"
  /\ resp.kind = "preview" =>
       LET n == 1 + Len(Subcommand(args.command))
       IN /\ Credentials \subseteq DOMAIN Validated
          /\ Len(resp.command) >= n + 4
          /\ SubSeq(resp.command, n + 1, n + 4) =
               <<"-a", Validated["auth_file"], "--log_db_auth_id", Validated["log_db_auth_id"]>>

\* The request in hand is of a kind built with the reduced shared options:
\* no credential field is reported missing, and a vector built from a
\* request that gives no credential has neither -a nor --log_db_auth_id.
CredentialsOptional ==
  /\ \A f \in Credentials :
       \A e \in resp.errors : ~(e.loc = <<args.command, f>> /\ e.type = "missing")
  /\ resp.kind = "preview" =>
       \A f \in Credentials : ~NonEmpty(Validated, f) => FlagOf(f) \notin Range(resp.command)

\* C12 as stated: exactly two kinds, sync and sync_export, are built with
\* the reduced shared options and have no mandatory credential field; each
\* of the other twelve requires auth_file and log_db_auth_id and always
\* emits -a <auth_file> and --log_db_auth_id <id>.
C12_TwoReducedKinds ==
  resp.tool = "preview_command" =>
    IF args.command \in {"sync", "sync_export"} THEN CredentialsOptional ELSE CredentialsMandatory

\* C12, amended: exactly four kinds, sync, sync_export, sync_publish and
\* run, are built with the reduced shared options and have no mandatory
\* credential field (run requires config only); each of the other ten
\* requires auth_file and log_db_auth_id at validation and always emits
\* -a <auth_file> and --log_db_auth_id <id> through the shared
\* global-options routine, right after the subcommand.
C12_FourReducedKinds ==
  resp.tool = "preview_command" =>
    IF args.command \in {"sync", "sync_export", "sync_publish", "run"}
    THEN CredentialsOptional
    ELSE CredentialsMandatory

\* A sync_publish request that gives no credential was built, without -a
\* and without --log_db_auth_id.
C12_Witness ==
  /\ resp.tool = "preview_command"
  /\ resp.kind = "preview"
  /\ args.command = "sync_publish"
  /\ Credentials \cap DOMAIN Sent = {}
  /\ {"-a", "--log_db_auth_id"} \cap Range(resp.command) = {}

\* What a build_command call may read and must leave as it is: the request,
\* the builder, and the version detector's cache.
BuildInputs ==
  <<args, builder_ok, binary_path, FASTBCP_DIR_PATH,
    _SORTED_VERSIONS, _detection_done, _detected_version, probes>>

LexLess(a, b) ==
  \/ a[1] < b[1]
  \/ a[1] = b[1] /\ a[2] < b[2]
  \/ a[1] = b[1] /\ a[2] = b[2] /\ a[3] < b[3]

LexLeq(a, b) == LexLess(a, b) \/ (a[1] = b[1] /\ a[2] = b[2] /\ a[3] = b[3])

\* The entries of the registry in use, those at or below a version, and the
\* greatest and the highest of a set of entries.
Registered == {_SORTED_VERSIONS[i] : i \in DOMAIN _SORTED_VERSIONS}

AtOrBelow(v) == {e \in Registered : LexLeq(e[1], v)}

Greatest(es) == CHOOSE e \in es : \A f \in es : LexLeq(f[1], e[1])

\* C14: with a non-empty registry and a detected version v at or above at
\* least one registered version, the capabilities returned are those of the
\* greatest registered version <= v: an exact match gives its own entry, a
\* version newer than all gives the highest entry.
C14_GreatestAtOrBelow ==
  \A i \in DOMAIN resolved :
    LET v == resolved[i].version
    IN (v # NoVersion /\ AtOrBelow(v) # {}) =>
         resolved[i].capabilities = Greatest(AtOrBelow(v))[2]

\* A version strictly between the two entries of a registry was resolved to
\* the lower entry.
C14_Witness ==
  \E i \in DOMAIN resolved :
    /\ Len(_SORTED_VERSIONS) = 2
    /\ resolved[i].version # NoVersion
    /\ LexLess(_SORTED_VERSIONS[1][1], resolved[i].version)
    /\ LexLess(resolved[i].version, _SORTED_VERSIONS[2][1])
    /\ resolved[i].capabilities = _SORTED_VERSIONS[1][2]
    /\ resolved[i].capabilities # _SORTED_VERSIONS[2][2]

\* A capability set with nothing in it: no identifier and no command.
NothingSupported(caps) ==
  /\ caps.source_databases = {} /\ caps.log_databases = {} /\ caps.storage_backends = {}
  /\ caps.publish_targets = {} /\ caps.compression_types = {} /\ caps.commands = {}

\* C15: with a non-empty registry the resolver falls back to the highest
\* registered entry both when the version is absent (the probe failed or
\* its output was not understood) and when the detected version is older
\* than every registered version; it never returns the empty capability
\* set.
C15_FallbackToHighest ==
  Registered # {} =>
    \A i \in DOMAIN resolved :
      LET v == resolved[i].version
      IN /\ ~NothingSupported(resolved[i].capabilities)
         /\ (v = NoVersion \/ AtOrBelow(v) = {}) =>
              resolved[i].capabilities = Greatest(Registered)[2]

\* Against a registry of two entries, an absent version and a version older
\* than both entries were each resolved to the higher entry.
C15_Witness ==
  /\ Len(_SORTED_VERSIONS) = 2
  /\ \E i, j \in DOMAIN resolved :
       /\ resolved[i].version = NoVersion
       /\ resolved[j].version # NoVersion
       /\ LexLess(resolved[j].version, _SORTED_VERSIONS[1][1])
       /\ resolved[i].capabilities = _SORTED_VERSIONS[2][2]
       /\ resolved[j].capabilities = _SORTED_VERSIONS[2][2]
       /\ _SORTED_VERSIONS[2][2] # _SORTED_VERSIONS[1][2]

\* C16: with an empty registry the resolver returns the all-empty capability
\* set, the five identifier sets and the command set empty and the four
\* feature flags false, for every detected version and for an absent one.
C16_EmptyRegistryEmptyCapabilities ==
  Registered = {} =>
    \A i \in DOMAIN resolved :
      /\ NothingSupported(resolved[i].capabilities)
      /\ ~resolved[i].capabilities.supports_no_banner
      /\ ~resolved[i].capabilities.supports_version_flag
      /\ ~resolved[i].capabilities.supports_incremental
      /\ ~resolved[i].capabilities.supports_cleanup

\* Against the empty registry, a detected version and an absent one were
\* each resolved, to a set with no command.
C16_Witness ==
  /\ _SORTED_VERSIONS = << >>
  /\ \E i, j \in DOMAIN resolved :
       /\ resolved[i].version = NoVersion
       /\ resolved[j].version # NoVersion
       /\ resolved[i].capabilities.commands = {}
       /\ resolved[j].capabilities.commands = {}

\* The version of the registry entry a resolution selected, and whether a
\* version is older than every registered version.
Selected(i) == (CHOOSE e \in Registered : e[2] = resolved[i].capabilities)[1]

OlderThanAll(v) == AtOrBelow(v) = {}

\* Two resolutions against a non-empty registry, of detected versions v1 <= v2.
Ordered(i, j) ==
  /\ Registered # {}
  /\ resolved[i].version # NoVersion
  /\ resolved[j].version # NoVersion
  /\ LexLeq(resolved[i].version, resolved[j].version)

\* C17 as stated: resolution is monotonic in the version.  For any two
\* detected versions v1 <= v2 the version of the entry selected for v1 is
\* <= the version of the entry selected for v2.
C17_Monotonic ==
  \A i, j \in DOMAIN resolved : Ordered(i, j) => LexLeq(Selected(i), Selected(j))

\* C17, amended: for two detected versions v1 <= v2 the version of the
\* entry selected for v1 is <= the one selected for v2 when v1 is at or
\* above at least one registered version; a v1 older than every registered
\* version selects the highest entry, so that the entry selected for v2 is
\* then <= the one selected for v1.
C17_MonotonicAboveLowest ==
  \A i, j \in DOMAIN resolved :
    Ordered(i, j) =>
      IF OlderThanAll(resolved[i].version)
      THEN Selected(i) = Greatest(Registered)[1] /\ LexLeq(Selected(j), Selected(i))
      ELSE LexLeq(Selected(i), Selected(j))

\* Against a registry of two entries, a version older than both was
\* resolved to the higher entry and a later version to the lower one.
C17_Witness ==
  /\ Len(_SORTED_VERSIONS) = 2
  /\ \E i, j \in DOMAIN resolved :
       /\ Ordered(i, j)
       /\ OlderThanAll(resolved[i].version)
       /\ Selected(i) = _SORTED_VERSIONS[2][1]
       /\ Selected(j) = _SORTED_VERSIONS[1][1]
       /\ LexLess(Selected(j), Selected(i))

\* The versions a run of the resolver has seen: the registered ones, the
\* detected one, and those resolved.
VersionsSeen ==
  {e[1] : e \in Registered}
  \cup {resolved[i].version : i \in DOMAIN resolved}
  \cup {_detected_version}

Compared == VersionsSeen \ {NoVersion}

\* C18: the comparison of LakeXpressVersion values is the lexicographic
\* order on (major, minor, patch).  It is a total order, two versions are
\* equal if and only if all three components are equal, and
\* (0,1,0) < (0,2,0) < (0,2,8) < (0,3,0) < (1,0,0).
C18_LexicographicOrder ==
  /\ \A a, b \in Compared :
       /\ __lt__(a, b) <=> LexLess(a, b)
       /\ __le__(a, b) <=> LexLeq(a, b)
       /\ __eq__(a, b) <=> (a[1] = b[1] /\ a[2] = b[2] /\ a[3] = b[3])
       /\ __lt__(a, b) \/ __eq__(a, b) \/ __lt__(b, a)
       /\ ~(__lt__(a, b) /\ __lt__(b, a))
       /\ ~(__lt__(a, b) /\ __eq__(a, b))
  /\ \A a, b \in Compared :
       __lt__(a, b) => \A c \in Compared : __lt__(b, c) => __lt__(a, c)
  /\ (Compared # {}) =>
       /\ __lt__(LakeXpressVersion(0, 1, 0), LakeXpressVersion(0, 2, 0))
       /\ __lt__(LakeXpressVersion(0, 2, 0), LakeXpressVersion(0, 2, 8))
       /\ __lt__(LakeXpressVersion(0, 2, 8), LakeXpressVersion(0, 3, 0))
       /\ __lt__(LakeXpressVersion(0, 3, 0), LakeXpressVersion(1, 0, 0))

\* Versions that differ in the minor component one way and in the patch
\* component the other way were compared: (0,2,8) against (0,3,0).
C18_Witness ==
  /\ LakeXpressVersion(0, 2, 8) \in Compared
  /\ LakeXpressVersion(0, 3, 0) \in Compared
  /\ LakeXpressVersion(1, 0, 0) \in Compared
  /\ __lt__(LakeXpressVersion(0, 2, 8), LakeXpressVersion(0, 3, 0))

\* C19: version detection is memoized.  Once a detect() call has returned,
\* every later detect() call and capabilities access returns the same
\* result and runs no further probe, whether the first probe printed a
\* version, timed out, raised, or printed text that was not understood:
\* all detect() calls returned one version (or all none), all capabilities
\* accesses returned one capability set, for that version, the binary was
\* probed once at most, and no step after a returned call probes.
C19_DetectionMemoized ==
  /\ [](/\ \A i, j \in DOMAIN detected : detected[i] = detected[j]
        /\ \A i \in DOMAIN resolved :
             /\ \A j \in DOMAIN detected : resolved[i].version = detected[j]
             /\ \A j \in DOMAIN resolved : resolved[i] = resolved[j]
        /\ probes <= 1)
  /\ [][(detected # << >> \/ resolved # << >>) => probes' = probes]_vars

\* After a first probe that detected no version, detect() was called again
\* and the capabilities were read, with one probe in all.
C19_Witness ==
  /\ Len(detected) = 2
  /\ detected[1] = NoVersion
  /\ detected[2] = NoVersion
  /\ resolved # << >>
  /\ probes = 1

\* C20: under any interleaving of detect() calls and capabilities accesses
\* that callers make at the same time on one VersionDetector, the binary is
\* probed at most once.
C20_ProbedAtMostOnce == probes <= 1

\* Two callers each passed the test of _detection_done before either had
\* set it, and each ran the probe.
C20_Witness ==
  /\ probes = 2
  /\ \A t \in {1, 2} : threads[t].pc = "done"

\* One probe was run and has ended, its outcome stored, and no caller is
\* on its way to another probe.
ProbeEnded ==
  /\ probes = 1
  /\ \A t \in DOMAIN threads : threads[t].pc \notin {"192", "195", "204"}

\* C21: a caller that calls detect() or reads capabilities while another
\* caller's probe is in flight waits for that probe.  No call returns a
\* version, or the capabilities of a version, other than the one the
\* probe's outcome determines.
C21_WaitsForProbe ==
  ProbeEnded =>
    /\ \A i \in DOMAIN detected : detected[i] = _detected_version
    /\ \A i \in DOMAIN resolved :
         resolved[i].capabilities = Resolve(_SORTED_VERSIONS, _detected_version)

\* A detect() call made during the only probe returned no version, and the
\* probe then detected one.
C21_Witness ==
  /\ ProbeEnded
  /\ _detected_version # NoVersion
  /\ \E i \in DOMAIN detected : detected[i] = NoVersion

\* A probe that failed: it raised, or printed text no version can be parsed
\* from.
ProbeFailed(result) == result.raised # "" \/ parse(result.output).raised # ""

\* C22: a detection failure never surfaces as an error.  For a probe that
\* timed out, found no binary, raised anything else or printed text that
\* cannot be parsed, detect() raises nothing and returns 'absent', the
\* construction of the CommandBuilder that ran it succeeds, and the
\* capabilities read afterwards are those of the fallback, the highest
\* registered entry.
C22_FailureAbsorbed ==
  /\ [](\A i \in DOMAIN probed :
          ProbeFailed(probed[i].result) =>
            /\ probed[i].raised = ""
            /\ _detected_version = NoVersion
            /\ \A j \in DOMAIN detected : detected[j] = NoVersion
            /\ \A j \in DOMAIN resolved :
                 /\ resolved[j].version = NoVersion
                 /\ resolved[j].capabilities = _SORTED_VERSIONS[Len(_SORTED_VERSIONS)][2])
  /\ [][Construct => builder_ok']_vars

\* The probe of a builder's construction raised an exception that is
\* neither a timeout nor a missing file; the builder exists, its detect()
\* returned 'absent' and its capabilities were read.
C22_Witness ==
  /\ builder_ok
  /\ Len(probed) = 1
  /\ probed[1].result.raised = "PermissionError"
  /\ probed[1].raised = ""
  /\ detected # << >>
  /\ detected[1] = NoVersion
  /\ resolved # << >>

\* C23: the detected version is the version parsed from the probe's output
\* under the parsing rule of LakeXpressVersion.parse.  Whenever parse
\* succeeds on the combined output, detect() returns that triple, and it
\* returns 'absent' only when the probe failed or parse would fail.
C23_DetectedIsParsed ==
  \A i \in DOMAIN probed : \A j \in DOMAIN detected :
    LET result == probed[i].result
    IN /\ ~ProbeFailed(result) => detected[j] = parse(result.output).value
       /\ detected[j] = NoVersion => ProbeFailed(result)

\* The probe printed a version without the product name before it; parse
\* reads 0.2.8 from it and detect() returned 'absent'.
C23_Witness ==
  /\ Len(probed) = 1
  /\ probed[1].result.raised = ""
  /\ parse(probed[1].result.output) = Returns(LakeXpressVersion(0, 2, 8))
  /\ detected # << >>
  /\ detected[1] = NoVersion

\* C24: when the binary path is missing, not a regular file or not
\* executable at initialisation, command_builder is None for the life of the
\* server: every preview_command, execute_command and get_version call
\* answers with the no-binary error, whatever is at the path by then, and no
\* command is built or executed.
C24_UnusableForever ==
  ~builder_ok =>
    /\ resp.kind \in {"", "no_binary"}
    /\ previewed = {}
    /\ executed = << >>
    /\ results = << >>
    /\ logs = NoFiles

\* The binary was installed after a failed initialisation and an execution
\* was still refused.
C24_Witness ==
  /\ ~builder_ok
  /\ binary = "executable"
  /\ resp.tool = "execute_command"
  /\ resp.kind = "no_binary"

\* What execute_command did at the i-th execution.
ResultOf(i) == results[i].result

TimedOutMessage(result) ==
  /\ result.raised = "LakeXpressError"
  /\ result.value[1] = "Execution timed out after "

RecordIntact(i) ==
  \E f \in DOMAIN logs :
    /\ logs[f].run = i
    /\ logs[f].command = results[i].command
    /\ logs[f].return_code = ResultOf(i).value[1]
    /\ logs[f].stdout = ResultOf(i).value[2]
    /\ logs[f].stderr = ResultOf(i).value[3]

\* C26: executions with the same log directory are independent: the record
\* every completed execution persisted stays in the directory as written,
\* none is overwritten by another execution.
C26_RecordsIntact ==
  \A i \in DOMAIN results :
    results[i].outcome \in Completed => RecordIntact(i)

\* Two executions completed within one second and the directory holds the
\* record of the second only.
C26_Witness ==
  /\ Len(results) = 2
  /\ \A i \in DOMAIN results : results[i].outcome \in Completed
  /\ ~RecordIntact(1)
  /\ RecordIntact(2)

\* The rendered string cut at the continuation markers.
RECURSIVE LinesOf(_, _, _)
LinesOf(s, line, out) ==
  IF s = << >> THEN Append(out, line)
  ELSE IF Len(s) >= Len(ContinuationMarker)
          /\ SubSeq(s, 1, Len(ContinuationMarker)) = ContinuationMarker
  THEN LinesOf(SubSeq(s, Len(ContinuationMarker) + 1, Len(s)), << >>, Append(out, line))
  ELSE LinesOf(Tail(s), Append(line, Head(s)), out)

FirstBlank(line) == CHOOSE j \in DOMAIN line : line[j] = " " /\ \A k \in 1..(j - 1) : line[k] # " "

\* The quotes the rendering adds go around a value with a blank in it.
Unquoted(value) ==
  IF /\ Len(value) >= 2
     /\ value[1] = "\""
     /\ value[Len(value)] = "\""
     /\ \E k \in DOMAIN value : value[k] = " "
  THEN SubSeq(value, 2, Len(value) - 1)
  ELSE value

\* The tokens a reader takes from line k: the first line is the binary path;
\* a later line that starts with a dash and has a blank is a flag and its
\* value; any other line is one token.
ReadLine(k, line) ==
  IF k > 1 /\ line # << >> /\ Head(line) \in DashSymbols /\ \E j \in DOMAIN line : line[j] = " "
  THEN <<SubSeq(line, 1, FirstBlank(line) - 1),
         Unquoted(SubSeq(line, FirstBlank(line) + 1, Len(line)))>>
  ELSE <<line>>

RECURSIVE ReadLines(_, _)
ReadLines(lines, k) ==
  IF k > Len(lines) THEN << >>
  ELSE ReadLine(k, lines[k]) \o ReadLines(lines, k + 1)

ReadBack(text) == ReadLines(LinesOf(text, << >>, << >>), 1)

\* Line k holds a single token, or a flag and a value that does not start
\* with a dash.
WellFormedLine(k, line) ==
  LET read == ReadLine(k, line)
  IN \/ Len(read) = 1
     \/ /\ Len(read) = 2
        /\ Head(read[1]) \in DashSymbols
        /\ read[2] # << >> => Head(read[2]) \notin DashSymbols

\* The rendering of the vector has the binary path alone on its first line,
\* its lines are well formed, and reading them back gives the vector.
Faithful(d) ==
  LET lines == LinesOf(d.text, << >>, << >>)
  IN /\ lines[1] = Symbols(d.command[1])
     /\ \A k \in DOMAIN lines : WellFormedLine(k, lines[k])
     /\ ReadBack(d.text) = Tokens(d.command)

Rendered == displayed.command # << >> /\ displayed.text # << >>

\* A token that starts with a dash and has a blank in it.
DashedWithBlank(command) ==
  \E i \in DOMAIN command : startswith_dash(command[i]) /\ has_space(command[i])

WhitespaceSymbols == {" ", "\t", "\n"}

has_whitespace(token) == \E k \in DOMAIN Symbols(token) : Symbols(token)[k] \in WhitespaceSymbols

\* The text holds the token between double quotes.
RECURSIVE Holds(_, _)
Holds(text, part) ==
  /\ Len(text) >= Len(part)
  /\ \/ SubSeq(text, 1, Len(part)) = part
     \/ Holds(Tail(text), part)

InQuotes(text, token) == Holds(text, <<"\"">> \o Symbols(token) \o <<"\"">>)

\* C28: in the rendered string every token of the vector that contains
\* whitespace, at whatever position and whatever the whitespace character,
\* stands between double quotes.
C28_WhitespaceQuoted ==
  Rendered =>
    \A i \in DOMAIN displayed.command :
      has_whitespace(displayed.command[i]) => InQuotes(displayed.text, displayed.command[i])

\* A binary path with a blank and a value with a tab were rendered and
\* neither stands in quotes.
C28_Witness ==
  /\ Rendered
  /\ displayed.command = <<"/my tools/LakeXpress", "--sync_id", "b\tc">>
  /\ ~InQuotes(displayed.text, "/my tools/LakeXpress")
  /\ ~InQuotes(displayed.text, "b\tc")

\* The preview has rendered a built vector.
PreviewRendered == resp.tool = "preview_command" /\ resp.kind = "preview"

\* C29: the "full command for execution" string of a preview, the tokens
\* joined by single blanks, split by execute_command's shlex.split is the
\* vector build_command produced.
C29_RoundTrip ==
  PreviewRendered =>
    /\ shlex_split(Join(resp.command)).raised = ""
    /\ shlex_split(Join(resp.command)).value = Tokens(resp.command)

\* A validated request with a path that has a blank in it was previewed, and
\* the string of the preview splits into more tokens than were built.
C29_Witness ==
  /\ PreviewRendered
  /\ \E i \in DOMAIN resp.command : resp.command[i] = "b c"
  /\ shlex_split(Join(resp.command)).raised = ""
  /\ Len(shlex_split(Join(resp.command)).value) > Len(resp.command)

\* The matching variant of the request carries property f with a value that
\* is not the empty or default one.
Supplied(f) ==
  LET k == args.command
      p == args.variants[k]
  IN /\ f \in Keys(p)
     /\ CASE SchemaTypeOf(k, f) = "bool" -> p[f]
          [] SchemaTypeOf(k, f) = "int" -> p[f] # 0
          [] SchemaTypeOf(k, f) = "list" -> p[f] # << >>
          [] OTHER -> p[f] # ""

\* The request without property f.
NotSupplying(f) == [args EXCEPT !.variants[args.command] = WithoutField(@, f)]

\* The preview accepted the request and its answer is the one the request
\* without property f gets.
Dropped(f) ==
  /\ resp.kind = "preview"
  /\ resp = handle_preview_command(builder_ok, binary_path, FASTBCP_DIR_PATH, NotSupplying(f))

\* C30: a property the inputSchema lists for the command, supplied in the
\* request, is reflected in the vector built or the request is rejected;
\* none is accepted and left out of the command.
C30_AdvertisedNeverDropped ==
  resp.tool = "preview_command" =>
    \A f \in InputSchema[args.command] : Supplied(f) => ~Dropped(f)

\* quiet_fbcp was supplied as true for a sync and the preview is that of the
\* request without it.
C30_Witness ==
  /\ resp.tool = "preview_command"
  /\ args.command = "sync"
  /\ Supplied("quiet_fbcp")
  /\ Dropped("quiet_fbcp")

\* Every property but quiet_fbcp is reflected or rejected, and every field of
\* a model is listed in the inputSchema.
SchemaOtherwiseHonoured ==
  /\ \A k \in Kinds : FieldNames[k] \subseteq InputSchema[k]
  /\ \A k \in Kinds : InputSchema[k] \ FieldNames[k] \subseteq {"quiet_fbcp"}
  /\ resp.tool = "preview_command" =>
       \A f \in InputSchema[args.command] \ {"quiet_fbcp"} : Supplied(f) => ~Dropped(f)

====
